---- MODULE Spec2Model ----
(***************************************************************************)
(* A model of the SWE-bench evaluation harness: the grading engine         *)
(* (swebench/harness/grading.py), the per-instance execution               *)
(* (run_instance in swebench/harness/run_evaluation.py) and the container  *)
(* helpers it calls (swebench/harness/docker_utils.py).                    *)
(***************************************************************************)
EXTENDS Integers, Sequences, FiniteSets, TLC

(***************************************************************************)
(* Bounds                                                                  *)
(***************************************************************************)
\* number of distinct test-case ids
NumTests == 3
\* longest FAIL_TO_PASS / PASS_TO_PASS list
MaxRefLen == 2

Tests == 1..NumTests

(***************************************************************************)
(* Constants of the harness                                                *)
(***************************************************************************)
PASSED == "PASSED"
FAILED == "FAILED"
SKIPPED == "SKIPPED"
ERROR == "ERROR"
XFAIL == "XFAIL"
TestStatus == {PASSED, FAILED, SKIPPED, ERROR, XFAIL}

\* a key that is not in the status map (a dict without that key)
ABSENT == "ABSENT"

FULL == "RESOLVED_FULL"
PARTIAL == "RESOLVED_PARTIAL"
NO == "RESOLVED_NO"
ResolvedStatus == {FULL, PARTIAL, NO}

\* value of a variable that has not been assigned yet
None == "None"

(***************************************************************************)
(* Grading: pure functions of grading.py                                   *)
(***************************************************************************)

\* all status maps: a value for every test id, ABSENT for a missing key
StatusMaps == [Tests -> TestStatus \cup {ABSENT}]

\* duplicate-free lists of test ids, as FAIL_TO_PASS / PASS_TO_PASS hold them
RefLists ==
    UNION { {s \in [1..n -> Tests] : \A i, j \in 1..n : i # j => s[i] # s[j]}
            : n \in 0..MaxRefLen }

test_passed(case, map) ==
    map[case] # ABSENT /\ map[case] \in {PASSED, XFAIL}

test_failed_absent_ok(case, map) ==
    map[case] # ABSENT /\ map[case] \in {FAILED, ERROR}

test_failed(case, map) ==
    map[case] = ABSENT \/ map[case] \in {FAILED, ERROR}

get_eval_tests_report_all_total(eval_sm, gold_results) ==
    [FAIL_TO_PASS |->
        [success |-> SelectSeq(gold_results.FAIL_TO_PASS,
                               LAMBDA t : test_passed(t, eval_sm)),
         failure |-> SelectSeq(gold_results.FAIL_TO_PASS,
                               LAMBDA t : ~test_passed(t, eval_sm))],
     PASS_TO_PASS |->
        [success |-> SelectSeq(gold_results.PASS_TO_PASS,
                               LAMBDA t : test_passed(t, eval_sm)),
         failure |-> SelectSeq(gold_results.PASS_TO_PASS,
                               LAMBDA t : ~test_passed(t, eval_sm))]]

\* the two loops: a case goes to success if it passed, else to failure if it
\* failed, else (SKIPPED) to neither list
get_eval_tests_report(eval_sm, gold_results) ==
    [FAIL_TO_PASS |->
        [success |-> SelectSeq(gold_results.FAIL_TO_PASS,
                               LAMBDA t : test_passed(t, eval_sm)),
         failure |-> SelectSeq(gold_results.FAIL_TO_PASS,
                               LAMBDA t : ~test_passed(t, eval_sm)
                                          /\ test_failed(t, eval_sm))],
     PASS_TO_PASS |->
        [success |-> SelectSeq(gold_results.PASS_TO_PASS,
                               LAMBDA t : test_passed(t, eval_sm)),
         failure |-> SelectSeq(gold_results.PASS_TO_PASS,
                               LAMBDA t : ~test_passed(t, eval_sm)
                                          /\ test_failed(t, eval_sm))]]

\* A rate is the fraction num/den with den > 0; the integer 1 is 1/1.
RateOne == [num |-> 1, den |-> 1]
RateEq1(r) == r.num = r.den
RateLt1(r) == r.num < r.den
RateGt0(r) == r.num > 0

compute_fail_to_pass_zero_when_empty(rep) ==
    LET total == Len(rep.FAIL_TO_PASS.success) + Len(rep.FAIL_TO_PASS.failure)
    IN  IF total = 0 THEN [num |-> 0, den |-> 1]
        ELSE [num |-> Len(rep.FAIL_TO_PASS.success), den |-> total]

compute_fail_to_pass(rep) ==
    LET total == Len(rep.FAIL_TO_PASS.success) + Len(rep.FAIL_TO_PASS.failure)
    IN  IF total = 0 THEN RateOne
        ELSE [num |-> Len(rep.FAIL_TO_PASS.success), den |-> total]

compute_pass_to_pass_always_one(rep) ==
    RateOne

compute_pass_to_pass(rep) ==
    LET total == Len(rep.PASS_TO_PASS.success) + Len(rep.PASS_TO_PASS.failure)
    IN  IF total = 0 THEN RateOne
        ELSE [num |-> Len(rep.PASS_TO_PASS.success), den |-> total]

get_resolution_status_partial_ignores_p2p(rep) ==
    LET f2p == compute_fail_to_pass(rep)
        p2p == compute_pass_to_pass(rep)
    IN  IF RateEq1(f2p) /\ RateEq1(p2p) THEN FULL
        ELSE IF RateLt1(f2p) /\ RateGt0(f2p) THEN PARTIAL
        ELSE NO

get_resolution_status_no_partial(rep) ==
    LET f2p == compute_fail_to_pass(rep)
        p2p == compute_pass_to_pass(rep)
    IN  IF RateEq1(f2p) /\ RateEq1(p2p) THEN FULL
        ELSE NO

get_resolution_status(rep) ==
    LET f2p == compute_fail_to_pass(rep)
        p2p == compute_pass_to_pass(rep)
    IN  IF RateEq1(f2p) /\ RateEq1(p2p) THEN FULL
        ELSE IF RateLt1(f2p) /\ RateGt0(f2p) /\ RateEq1(p2p) THEN PARTIAL
        ELSE NO

(***************************************************************************)
(* Evaluation logs                                                         *)
(***************************************************************************)
\* longest log handed to get_eval_report, in lines
MaxLogLen == 2

APPLY_PATCH_FAIL == ">>>>> Patch Apply Failed"
APPLY_PATCH_PASS == ">>>>> Applied Patch"
RESET_FAILED == ">>>>> Reset Failed"
TESTS_ERROR == ">>>>> Tests Errored"
TESTS_TIMEOUT == ">>>>> Tests Timed Out"
RESET_FAILED_TEXT == "Failed to reset task environment"
APPLY_PATCH_PASS_PRED == ">>>>> Applied Patch (pred)"
\* what `git apply -v` prints when the eval script applies the test patch
GIT_APPLIED == "Applied patch tests.py cleanly."
APPLIED_PATCH_LOWER == "applied patch"

\* A log is a sequence of lines.  A line is either text (test = 0) or the
\* outcome that the test framework printed for one test case.
TextLine(s) == [text |-> s, test |-> 0, status |-> ""]
ResultLine(t, st) == [text |-> "", test |-> t, status |-> st]

MarkerTexts ==
    {APPLY_PATCH_FAIL, RESET_FAILED, TESTS_ERROR, TESTS_TIMEOUT,
     RESET_FAILED_TEXT, APPLY_PATCH_PASS_PRED, GIT_APPLIED}
\* outcomes printed in result lines
LineStatuses == {PASSED, FAILED}
ResultLines == {ResultLine(t, st) : t \in Tests, st \in LineStatuses}
LogLines == {TextLine(s) : s \in MarkerTexts} \cup ResultLines

SeqsUpTo(S, n) == UNION {[1..k -> S] : k \in 0..n}
Logs == SeqsUpTo(LogLines, MaxLogLen)

\* `needle in line`: the needles that occur in each text, case-sensitively
Substrings(s) ==
    CASE s = APPLY_PATCH_FAIL -> {APPLY_PATCH_FAIL}
      [] s = RESET_FAILED -> {RESET_FAILED}
      [] s = TESTS_ERROR -> {TESTS_ERROR}
      [] s = TESTS_TIMEOUT -> {TESTS_TIMEOUT}
      [] s = RESET_FAILED_TEXT -> {RESET_FAILED_TEXT}
      [] s = APPLY_PATCH_PASS_PRED -> {APPLY_PATCH_PASS, APPLY_PATCH_PASS_PRED}
      [] s = ">>>>> applied patch (pred)" -> {APPLIED_PATCH_LOWER}
      [] s = "applied patch tests.py cleanly." -> {APPLIED_PATCH_LOWER}
      [] OTHER -> {}

\* str.lower()
Lower(s) ==
    CASE s = APPLY_PATCH_FAIL -> ">>>>> patch apply failed"
      [] s = RESET_FAILED -> ">>>>> reset failed"
      [] s = TESTS_ERROR -> ">>>>> tests errored"
      [] s = TESTS_TIMEOUT -> ">>>>> tests timed out"
      [] s = RESET_FAILED_TEXT -> "failed to reset task environment"
      [] s = APPLY_PATCH_PASS_PRED -> ">>>>> applied patch (pred)"
      [] s = GIT_APPLIED -> "applied patch tests.py cleanly."
      [] OTHER -> s

\* x in content
Contains(content, x) ==
    \E i \in 1..Len(content) : x \in Substrings(content[i].text)

\* x in content.lower()
LowerContains(content, x) ==
    \E i \in 1..Len(content) : x \in Substrings(Lower(content[i].text))

\* content.split(sep)[-1]: what follows the last line holding sep
SplitLast(content, sep) ==
    LET at == {i \in 1..Len(content) : sep \in Substrings(content[i].text)}
        last == CHOOSE i \in at : \A j \in at : j <= i
    IN  IF at = {} THEN content ELSE SubSeq(content, last + 1, Len(content))

\* MAP_REPO_TO_PARSER[repo]: the status that the last result line of a test
\* reports; a test without a result line is not in the map
log_parser(content) ==
    [t \in Tests |->
        LET at == {i \in 1..Len(content) : content[i].test = t}
            last == CHOOSE i \in at : \A j \in at : j <= i
        IN  IF at = {} THEN ABSENT ELSE content[last].status]

EmptyStatusMap == [t \in Tests |-> ABSENT]

get_logs_eval_no_timeout_check(content) ==
    IF \/ \E x \in {APPLY_PATCH_FAIL, RESET_FAILED, TESTS_ERROR,
                    RESET_FAILED_TEXT} : Contains(content, x)
       \/ ~LowerContains(content, APPLIED_PATCH_LOWER)
    THEN [sm |-> EmptyStatusMap, found |-> FALSE, parsed |-> FALSE]
    ELSE [sm |-> log_parser(SplitLast(content, APPLY_PATCH_PASS_PRED)),
          found |-> TRUE, parsed |-> TRUE]

\* returns the status map and whether the patch applied; parsed records
\* whether log_parser was called
get_logs_eval(content) ==
    IF \/ \E x \in {APPLY_PATCH_FAIL, RESET_FAILED, TESTS_ERROR,
                    TESTS_TIMEOUT, RESET_FAILED_TEXT} : Contains(content, x)
       \/ ~LowerContains(content, APPLIED_PATCH_LOWER)
    THEN [sm |-> EmptyStatusMap, found |-> FALSE, parsed |-> FALSE]
    ELSE [sm |-> log_parser(SplitLast(content, APPLY_PATCH_PASS_PRED)),
          found |-> TRUE, parsed |-> TRUE]

\* report_map[instance_id] before any check; none is the key "none" that the
\* null-patch branch adds (FALSE: the key is not there)
InitialReport ==
    [patch_is_None |-> FALSE, patch_exists |-> FALSE,
     patch_successfully_applied |-> FALSE, resolved |-> FALSE,
     none |-> FALSE, tests_status |-> None]

\* returns the report of the instance and whether the log parser was called
\* get_eval_report, counting a PARTIAL verdict as resolved too
get_eval_report_resolves_partial(gold, patch, content, include_tests_status) ==
    IF patch = None
    THEN [report |-> [InitialReport EXCEPT !.none = TRUE], parsed |-> FALSE]
    ELSE LET logs == get_logs_eval(content)
             tests == get_eval_tests_report(logs.sm, gold)
         IN  IF ~logs.found
             THEN [report |-> [InitialReport EXCEPT !.patch_exists = TRUE],
                   parsed |-> logs.parsed]
             ELSE [report |->
                      [InitialReport EXCEPT
                          !.patch_exists = TRUE,
                          !.patch_successfully_applied = TRUE,
                          !.resolved =
                              (get_resolution_status(tests) \in {FULL, PARTIAL}),
                          !.tests_status =
                              IF include_tests_status THEN tests ELSE None],
                   parsed |-> logs.parsed]

get_eval_report(gold, patch, content, include_tests_status) ==
    IF patch = None
    THEN [report |-> [InitialReport EXCEPT !.none = TRUE], parsed |-> FALSE]
    ELSE LET logs == get_logs_eval(content)
             tests == get_eval_tests_report(logs.sm, gold)
         IN  IF ~logs.found
             THEN [report |-> [InitialReport EXCEPT !.patch_exists = TRUE],
                   parsed |-> logs.parsed]
             ELSE [report |->
                      [InitialReport EXCEPT
                          !.patch_exists = TRUE,
                          !.patch_successfully_applied = TRUE,
                          !.resolved = (get_resolution_status(tests) = FULL),
                          !.tests_status =
                              IF include_tests_status THEN tests ELSE None],
                   parsed |-> logs.parsed]

(***************************************************************************)
(* State                                                                   *)
(***************************************************************************)
VARIABLES
    pc,             \* position of the running function
    gold_results,   \* FAIL_TO_PASS and PASS_TO_PASS of the test spec
    eval_sm,        \* status map under grading
    tests_report,   \* result of get_eval_tests_report
    status,         \* result of get_resolution_status
    model_patch,    \* prediction["model_patch"]
    test_output,    \* test_output.txt: << >> or <<the evaluation log>>
    report,         \* << >> or <<report_map[instance_id] of get_eval_report>>
    parser_called,  \* whether log_parser was called
    report_file,    \* report.json: << >> or <<the report written>>
    rm_image,       \* argument rm_image of run_instance
    timeout,        \* argument timeout of run_instance
    cmd_hangs,      \* the eval command never returns while the container runs
    logger,         \* the logger of run_instance: None until it is set up
    logger_open,    \* whether the log file handler is open
    container,      \* local variable container: None or the container id
    container_state, \* state of the container at the engine
    val,            \* << >> or <<exit code of the patch-apply command>>
    calls,          \* the engine and OS calls made so far, in order
    thread,         \* position of the command thread of exec_run_with_timeout
    exec_id,        \* closure variable exec_id
    exec_result,    \* closure variable exec_result: << >> or <<output>>
    exception,      \* closure variable exception
    clock,          \* seconds the caller has waited in thread.join
    exc,            \* the exception that left the try block, None if none
    outcome,        \* how run_instance ended: None, "returned" or "raised"
    pid             \* State.Pid read by cleanup_container, NoPid before

runVars ==
    <<report_file, rm_image, timeout, cmd_hangs, logger, logger_open,
      container, container_state, val, calls, thread, exec_id, exec_result,
      exception, clock, exc, outcome, pid>>

VARIABLES
    images,         \* the engine's images: creation time by name, Absent if none
    now,            \* the creation time of the newest image
    force_rebuild,  \* argument force_rebuild of the pass
    pass,           \* which call of build_instance_images this is, 0 if none
    bpc,            \* position of the caller of build_instance_images
    base_left,      \* base images the loop of build_base_images has yet to visit
    tasks,          \* per image: its build or its future in the tier's pool
    env_failed,     \* the failed list returned by build_env_images
    result,         \* what build_instance_images returned: << >> or <<lists>>
    started,        \* images whose build was started in this pass
    removed,        \* images removed in this pass
    skipped,        \* images found present and fresh in this pass
    earlier         \* the earlier passes: "clean", or a build "failed", or one "raised"

buildVars ==
    <<images, now, force_rebuild, pass, bpc, base_left, tasks, env_failed,
      result, started, removed, skipped, earlier>>

VARIABLES
    rpc,            \* position of main and of run_instances within it
    futures,        \* per instance: its run_instance call in the pool
    collected,      \* instances whose future the as_completed loop has visited
    docker_images,  \* names of the images the engine holds
    prior_images,   \* existing_images of main: list_images before the run
    existing_images, \* existing_images of run_instances: instance images found
    cache,          \* argument cache (the cache level)
    clean,          \* argument clean
    rm_images,      \* per instance: the rm_image its run_instance was given
    report_paths,   \* per instance: whether report.json is on disk
    executed,       \* instances for which a container was requested
    cleaned,        \* images removed by cleanup_image or clean_images
    failed_removals \* images whose removal the engine refused

poolVars ==
    <<rpc, futures, collected, docker_images, prior_images, existing_images,
      cache, clean, rm_images, report_paths, executed, cleaned,
      failed_removals>>

VARIABLES
    mrpc,           \* position of the caller of make_run_report
    predictions,    \* per instance: << >> if it has no prediction, else <<model_patch>>
    report_json,    \* per instance: report.json in its log directory
    dataset,        \* argument dataset (full_dataset): the instances reported on
    listed_images,  \* instance images list_images finds
    session_containers, \* instances whose container of this run is still listed
    called,         \* which make_run_report ran: None, "docker" or "modal"
    run_report,     \* << >> or <<the report written to the report file>>
    written_files,  \* names of the run-report files written
    returned_path   \* << >> if make_run_report returned None, else <<the path>>

reportVars ==
    <<mrpc, predictions, report_json, dataset, listed_images,
      session_containers, called, run_report, written_files, returned_path>>

VARIABLES
    mpc,            \* position of run_instances_modal
    run,            \* which run of run_instances_modal this is, 0 if none
    log_dirs,       \* per instance: whether its local log directory exists
    run_test_specs, \* the instances run_instances_modal hands to starmap
    sandbox,        \* per instance: position of its run_instance_modal
    commands,       \* per instance: the commands run in its sandbox, in order
    saved,          \* instances whose result was saved to the log directory
    errored_earlier \* instances whose result of an earlier run was an error

modalVars ==
    <<mpc, run, log_dirs, run_test_specs, sandbox, commands, saved,
      errored_earlier>>

VARIABLES
    cpc,            \* position of the harness that looks up the install table
    install_key,    \* per instance: what the install table has for its (repo, version)
    task_instances_grouped, \* instances TestbedContextManager still holds
    built           \* per instance: how far build_container got

configVars == <<cpc, install_key, task_instances_grouped, built>>

VARIABLES
    ipc,            \* position of build_image
    chunks,         \* what the build stream has yet to deliver
    consumed,       \* the chunks build_image has read
    handlers,       \* number of open handlers of the build logger
    buildlog,       \* number of stream chunks appended to buildlog
    build_error,    \* << >> or <<the BuildImageError raised>>
    failed_step     \* the step of build_image that failed, None if none

imageVars ==
    <<ipc, chunks, consumed, handlers, buildlog, build_error, failed_step>>

VARIABLES
    qpc,            \* position of build_instance_images over a batch
    batch,          \* argument dataset: the specs in the order given
    bpass,          \* which call of build_instance_images this is, 0 if none
    futs,           \* the futures of the pool in the order of submission
    attached,       \* per spec: logger.handlers of its prepare_image logger
    closed_handlers, \* the handlers that were closed
    next_handler    \* number of handlers setup_logger has made

batchVars ==
    <<qpc, batch, bpass, futs, attached, closed_handlers, next_handler>>

orchVars ==
    <<poolVars, reportVars, modalVars, configVars, imageVars, batchVars>>

vars ==
    <<pc, gold_results, eval_sm, tests_report, status, model_patch,
      test_output, report, parser_called, runVars, buildVars, orchVars>>

\* timeout=None
NoTimeout == -1

\* the container was not inspected
NoPid == -1
\* largest process id inspect_container reports
MaxPid == 1

\* run_instance is not running
RunIdle ==
    /\ report_file = <<>>
    /\ rm_image = FALSE
    /\ timeout = NoTimeout
    /\ cmd_hangs = FALSE
    /\ logger = None
    /\ logger_open = FALSE
    /\ container = None
    /\ container_state = None
    /\ val = <<>>
    /\ calls = <<>>
    /\ thread = "unstarted"
    /\ exec_id = None
    /\ exec_result = <<>>
    /\ exception = None
    /\ clock = 0
    /\ exc = None
    /\ outcome = None
    /\ pid = NoPid

\* test specs of a dataset, and the environment and base images they share
NumSpecs == 3
NumEnvs == 2
NumBases == 2
TestSpecs == 1..NumSpecs

\* test_spec.env_image_key and test_spec.base_image_key
env_image_key(spec) == ((spec - 1) % NumEnvs) + 1
base_image_key(spec) == ((env_image_key(spec) - 1) % NumBases) + 1

BaseImage(key) == [tier |-> "base", key |-> key]
EnvImage(key) == [tier |-> "env", key |-> key]
InstanceImage(spec) == [tier |-> "instance", key |-> spec]

BaseImages == {BaseImage(base_image_key(spec)) : spec \in TestSpecs}
EnvImages == {EnvImage(env_image_key(spec)) : spec \in TestSpecs}
InstanceImages == {InstanceImage(spec) : spec \in TestSpecs}
ImageNames == BaseImages \cup EnvImages \cup InstanceImages

\* docker.errors.ImageNotFound: no creation time
Absent == 0

NoTasks == [name \in ImageNames |-> "none"]

\* the build pipeline is not running
BuildIdle ==
    /\ images = [name \in ImageNames |-> Absent]
    /\ now = 0
    /\ force_rebuild = FALSE
    /\ pass = 0
    /\ bpc = "idle"
    /\ base_left = <<>>
    /\ tasks = NoTasks
    /\ env_failed = {}
    /\ result = <<>>
    /\ started = {}
    /\ removed = {}
    /\ skipped = {}
    /\ earlier = "clean"

\* instances of a run
NumInstances == 2
Instances == 1..NumInstances

\* main is not running
PoolIdle ==
    /\ rpc = "idle"
    /\ futures = [i \in Instances |-> "none"]
    /\ collected = {}
    /\ docker_images = {}
    /\ prior_images = {}
    /\ existing_images = {}
    /\ cache = "none"
    /\ clean = FALSE
    /\ rm_images = [i \in Instances |-> FALSE]
    /\ report_paths = [i \in Instances |-> "none"]
    /\ executed = {}
    /\ cleaned = {}
    /\ failed_removals = {}

\* make_run_report is not running
ReportIdle ==
    /\ mrpc = "idle"
    /\ predictions = [i \in Instances |-> <<>>]
    /\ report_json = [i \in Instances |-> "none"]
    /\ dataset = {}
    /\ listed_images = {}
    /\ session_containers = {}
    /\ called = None
    /\ run_report = <<>>
    /\ written_files = {}
    /\ returned_path = <<>>

\* run_instances_modal is not running
ModalIdle ==
    /\ mpc = "idle"
    /\ run = 0
    /\ log_dirs = [i \in Instances |-> FALSE]
    /\ run_test_specs = {}
    /\ sandbox = [i \in Instances |-> "none"]
    /\ commands = [i \in Instances |-> <<>>]
    /\ saved = {}
    /\ errored_earlier = {}

\* no harness is looking up the install table
ConfigIdle ==
    /\ cpc = "idle"
    /\ install_key = [i \in Instances |-> "known"]
    /\ task_instances_grouped = {}
    /\ built = [i \in Instances |-> "none"]

\* build_image is not running
ImageIdle ==
    /\ ipc = "idle"
    /\ chunks = <<>>
    /\ consumed = <<>>
    /\ handlers = 0
    /\ buildlog = 0
    /\ build_error = <<>>
    /\ failed_step = None

\* build_instance_images is not running over a batch
BatchIdle ==
    /\ qpc = "idle"
    /\ batch = <<>>
    /\ bpass = 0
    /\ futs = <<>>
    /\ attached = [spec \in TestSpecs |-> <<>>]
    /\ closed_handlers = {}
    /\ next_handler = 0

\* neither the install table lookup, build_image nor a batch of
\* build_instance_images is running
ToolsIdle ==
    /\ ConfigIdle
    /\ ImageIdle
    /\ BatchIdle

OrchIdle ==
    /\ PoolIdle
    /\ ReportIdle
    /\ ModalIdle
    /\ ToolsIdle

GoldResults == [FAIL_TO_PASS : RefLists, PASS_TO_PASS : RefLists]

\* reference lists of one task instance: a test is in at most one of them
InstanceGoldResults ==
    {g \in GoldResults :
        /\ Len(g.FAIL_TO_PASS) + Len(g.PASS_TO_PASS) <= MaxRefLen
        /\ \A i \in 1..Len(g.FAIL_TO_PASS), j \in 1..Len(g.PASS_TO_PASS) :
              g.FAIL_TO_PASS[i] # g.PASS_TO_PASS[j]}

(***************************************************************************)
(* Grading a status map against the reference lists                        *)
(***************************************************************************)
InitGrade ==
    /\ pc = "input"
    /\ gold_results \in GoldResults
    /\ eval_sm \in StatusMaps
    /\ tests_report = None
    /\ status = None
    /\ model_patch = None
    /\ test_output = <<>>
    /\ report = <<>>
    /\ parser_called = FALSE
    /\ RunIdle
    /\ BuildIdle
    /\ OrchIdle

GetEvalTestsReport ==
    /\ pc = "input"
    /\ tests_report' = get_eval_tests_report(eval_sm, gold_results)
    /\ pc' = "reported"
    /\ UNCHANGED <<gold_results, eval_sm, status, model_patch, test_output,
                   report, parser_called, runVars, buildVars, orchVars>>

GetResolutionStatus ==
    /\ pc = "reported"
    /\ status' = get_resolution_status(tests_report)
    /\ pc' = "graded"
    /\ UNCHANGED <<gold_results, eval_sm, tests_report, model_patch,
                   test_output, report, parser_called, runVars, buildVars, orchVars>>

NextGrade == GetEvalTestsReport \/ GetResolutionStatus

SpecGrade == InitGrade /\ [][NextGrade]_vars

(***************************************************************************)
(* Reporting on an evaluation log                                          *)
(***************************************************************************)
InitReport ==
    /\ pc = "input"
    /\ gold_results \in InstanceGoldResults
    /\ model_patch \in {None, "diff"}
    /\ test_output \in {<<content>> : content \in Logs}
    /\ eval_sm = None
    /\ tests_report = None
    /\ status = None
    /\ report = <<>>
    /\ parser_called = FALSE
    /\ RunIdle
    /\ BuildIdle
    /\ OrchIdle

GetEvalReport ==
    /\ pc = "input"
    /\ LET r == get_eval_report(gold_results, model_patch, test_output[1],
                                TRUE)
       IN  /\ report' = <<r.report>>
           /\ parser_called' = r.parsed
    /\ pc' = "returned"
    /\ UNCHANGED <<gold_results, eval_sm, tests_report, status, model_patch,
                   test_output, runVars, buildVars, orchVars>>

NextReport == GetEvalReport

SpecReport == InitReport /\ [][NextReport]_vars

(***************************************************************************)
(* run_instance: one instance in one container                             *)
(***************************************************************************)
\* largest finite timeout, in seconds
MaxTimeout == 1
\* most result lines in the output of the eval command
MaxOutLen == 1

Timeouts == {NoTimeout} \cup 0..MaxTimeout

\* What /eval.sh can print: the output of applying the test patch (it may
\* fail to apply and print nothing of the kind), then the test results.
EvalOutputs ==
    {head \o results :
        head \in {<<>>, <<TextLine(GIT_APPLIED)>>,
                  <<TextLine(GIT_APPLIED), TextLine(TESTS_TIMEOUT)>>},
        results \in SeqsUpTo(ResultLines, MaxOutLen)}

\* a report.json left by an earlier run
ExistingReport ==
    [InitialReport EXCEPT !.patch_exists = TRUE,
                          !.patch_successfully_applied = TRUE]

\* cleanup_container and cleanup_image: raise_error
raise_error(l) == l = None \/ l = "quiet"

Init ==
    /\ pc = "start"
    /\ gold_results \in InstanceGoldResults
    /\ model_patch \in {None, "diff"}
    /\ rm_image \in BOOLEAN
    /\ timeout \in Timeouts
    /\ cmd_hangs \in BOOLEAN
    /\ report_file \in {<<>>, <<ExistingReport>>}
    /\ eval_sm = None
    /\ tests_report = None
    /\ status = None
    /\ test_output = <<>>
    /\ report = <<>>
    /\ parser_called = FALSE
    /\ logger = None
    /\ logger_open = FALSE
    /\ container = None
    /\ container_state = None
    /\ val = <<>>
    /\ calls = <<>>
    /\ thread = "unstarted"
    /\ exec_id = None
    /\ exec_result = <<>>
    /\ exception = None
    /\ clock = 0
    /\ exc = None
    /\ outcome = None
    /\ pid = NoPid
    /\ BuildIdle
    /\ OrchIdle

\* an existing report is returned at once; else the logger is set up
RunStart ==
    /\ pc = "start"
    /\ IF report_file # <<>>
       THEN /\ report' = report_file
            /\ outcome' = "returned"
            /\ pc' = "done"
            /\ UNCHANGED <<logger, logger_open>>
       ELSE /\ logger' = "logger"
            /\ logger_open' = TRUE
            /\ pc' = "build_container"
            /\ UNCHANGED <<report, outcome>>
    /\ UNCHANGED <<gold_results, eval_sm, tests_report, status, model_patch,
                   test_output, parser_called, report_file, rm_image, timeout,
                   cmd_hangs, container, container_state, val, calls, thread,
                   exec_id, exec_result, exception, clock, exc,
                   pid, buildVars, orchVars>>

\* build_container returns a created container or raises BuildImageError
BuildContainer ==
    /\ pc = "build_container"
    /\ \/ /\ container' = "container"
          /\ container_state' = "created"
          /\ calls' = Append(calls, "create")
          /\ pc' = "container_start"
          /\ exc' = exc
       \/ /\ exc' = "BuildImageError"
          /\ pc' = "except"
          /\ UNCHANGED <<container, container_state, calls>>
    /\ UNCHANGED <<gold_results, eval_sm, tests_report, status, model_patch,
                   test_output, report, parser_called, report_file, rm_image,
                   timeout, cmd_hangs, logger, logger_open, val, thread, exec_id,
                   exec_result, exception, clock, outcome,
                   pid, buildVars, orchVars>>

ContainerStart ==
    /\ pc = "container_start"
    /\ calls' = Append(calls, "start")
    /\ \/ /\ container_state' = "running"
          /\ pc' = "write_patch"
          /\ exc' = exc
       \/ /\ exc' = "APIError"
          /\ pc' = "except"
          /\ container_state' = container_state
    /\ UNCHANGED <<gold_results, eval_sm, tests_report, status, model_patch,
                   test_output, report, parser_called, report_file, rm_image,
                   timeout, cmd_hangs, logger, logger_open, container, val,
                   thread, exec_id, exec_result, exception, clock, outcome,
                   pid, buildVars, orchVars>>

\* f.write(None) raises TypeError; else the patch is copied to the container
WritePatch ==
    /\ pc = "write_patch"
    /\ IF model_patch = None
       THEN /\ exc' = "TypeError"
            /\ pc' = "except"
            /\ calls' = calls
       ELSE /\ calls' = Append(calls, "put_archive")
            /\ pc' = "apply_patch"
            /\ exc' = exc
    /\ UNCHANGED <<gold_results, eval_sm, tests_report, status, model_patch,
                   test_output, report, parser_called, report_file, rm_image,
                   timeout, cmd_hangs, logger, logger_open, container,
                   container_state, val, thread, exec_id, exec_result, exception,
                   clock, outcome,
                   pid, buildVars, orchVars>>

ApplyPatch_ignores_exit_code ==
    /\ pc = "apply_patch"
    /\ \E exit_code \in {0, 1} :
          /\ val' = <<exit_code>>
          /\ calls' = Append(calls, "git_apply")
          /\ pc' = "diff_before"
          /\ exc' = exc
    /\ UNCHANGED <<gold_results, eval_sm, tests_report, status, model_patch,
                   test_output, report, parser_called, report_file, rm_image,
                   timeout, cmd_hangs, logger, logger_open, container,
                   container_state, thread, exec_id, exec_result, exception,
                   clock, outcome,
                   pid, buildVars, orchVars>>

\* git apply; a non-zero exit code raises EvaluationError
ApplyPatch ==
    /\ pc = "apply_patch"
    /\ \E exit_code \in {0, 1} :
          /\ val' = <<exit_code>>
          /\ calls' = Append(calls, "git_apply")
          /\ IF exit_code # 0
             THEN /\ exc' = "EvaluationError"
                  /\ pc' = "except"
             ELSE /\ pc' = "diff_before"
                  /\ exc' = exc
    /\ UNCHANGED <<gold_results, eval_sm, tests_report, status, model_patch,
                   test_output, report, parser_called, report_file, rm_image,
                   timeout, cmd_hangs, logger, logger_open, container,
                   container_state, thread, exec_id, exec_result, exception,
                   clock, outcome,
                   pid, buildVars, orchVars>>

DiffBefore ==
    /\ pc = "diff_before"
    /\ calls' = Append(calls, "git_diff")
    /\ pc' = "exec_run"
    /\ UNCHANGED <<gold_results, eval_sm, tests_report, status, model_patch,
                   test_output, report, parser_called, report_file, rm_image,
                   timeout, cmd_hangs, logger, logger_open, container,
                   container_state, val, thread, exec_id, exec_result, exception,
                   clock, exc, outcome,
                   pid, buildVars, orchVars>>

\* exec_run_with_timeout: thread.start()
ExecRun ==
    /\ pc = "exec_run"
    /\ thread' = "exec_create"
    /\ clock' = 0
    /\ pc' = "join"
    /\ UNCHANGED <<gold_results, eval_sm, tests_report, status, model_patch,
                   test_output, report, parser_called, report_file, rm_image,
                   timeout, cmd_hangs, logger, logger_open, container,
                   container_state, val, calls, exec_id, exec_result, exception,
                   exc, outcome,
                   pid, buildVars, orchVars>>

\* run_command: exec_create, then exec_start is called and blocks
ThreadExecCreate ==
    /\ thread = "exec_create"
    /\ \/ /\ container_state = "running"
          /\ exec_id' = "exec"
          /\ calls' = Append(Append(calls, "exec_create"), "exec_start")
          /\ thread' = "exec_start"
          /\ exception' = exception
       \/ /\ exception' = "APIError"
          /\ thread' = "dead"
          /\ UNCHANGED <<exec_id, calls>>
    /\ UNCHANGED <<pc, gold_results, eval_sm, tests_report, status, model_patch,
                   test_output, report, parser_called, report_file, rm_image,
                   timeout, cmd_hangs, logger, logger_open, container,
                   container_state, val, exec_result, clock, exc, outcome,
                   pid, buildVars, orchVars>>

\* run_command: exec_start returns the output or raises; a command that
\* hangs ends only with its container
ThreadExecReturn ==
    /\ thread = "exec_start"
    /\ ~cmd_hangs \/ container_state # "running"
    /\ \/ /\ \E output \in EvalOutputs : exec_result' = <<output>>
          /\ exception' = exception
       \/ /\ exception' = "APIError"
          /\ exec_result' = exec_result
    /\ thread' = "dead"
    /\ UNCHANGED <<pc, gold_results, eval_sm, tests_report, status, model_patch,
                   test_output, report, parser_called, report_file, rm_image,
                   timeout, cmd_hangs, logger, logger_open, container,
                   container_state, val, calls, exec_id, clock, exc, outcome,
                   pid, buildVars, orchVars>>

\* a second passes while the caller is in thread.join(timeout)
Tick ==
    /\ pc = "join"
    /\ thread # "dead"
    /\ timeout # NoTimeout
    /\ clock < timeout
    /\ clock' = clock + 1
    /\ UNCHANGED <<pc, gold_results, eval_sm, tests_report, status, model_patch,
                   test_output, report, parser_called, report_file, rm_image,
                   timeout, cmd_hangs, logger, logger_open, container,
                   container_state, val, calls, thread, exec_id, exec_result,
                   exception, exc, outcome,
                   pid, buildVars, orchVars>>

\* thread.join(timeout) returns when the thread ended or the time is up
JoinReturn ==
    /\ pc = "join"
    /\ thread = "dead" \/ (timeout # NoTimeout /\ clock >= timeout)
    /\ pc' = "check_exception"
    /\ UNCHANGED <<gold_results, eval_sm, tests_report, status, model_patch,
                   test_output, report, parser_called, report_file, rm_image,
                   timeout, cmd_hangs, logger, logger_open, container,
                   container_state, val, calls, thread, exec_id, exec_result,
                   exception, clock, exc, outcome,
                   pid, buildVars, orchVars>>

CheckException ==
    /\ pc = "check_exception"
    /\ IF exception # None
       THEN /\ exc' = exception
            /\ pc' = "except"
       ELSE /\ pc' = "check_alive"
            /\ exc' = exc
    /\ UNCHANGED <<gold_results, eval_sm, tests_report, status, model_patch,
                   test_output, report, parser_called, report_file, rm_image,
                   timeout, cmd_hangs, logger, logger_open, container,
                   container_state, val, calls, thread, exec_id, exec_result,
                   exception, clock, outcome,
                   pid, buildVars, orchVars>>

\* a thread that is still alive raises TimeoutError; else exec_result is
\* returned
CheckAlive ==
    /\ pc = "check_alive"
    /\ IF thread # "dead"
       THEN /\ exc' = "TimeoutError"
            /\ pc' = "except"
       ELSE /\ pc' = "write_output"
            /\ exc' = exc
    /\ UNCHANGED <<gold_results, eval_sm, tests_report, status, model_patch,
                   test_output, report, parser_called, report_file, rm_image,
                   timeout, cmd_hangs, logger, logger_open, container,
                   container_state, val, calls, thread, exec_id, exec_result,
                   exception, clock, outcome,
                   pid, buildVars, orchVars>>

\* result.decode() (None has no decode) and test_output.txt
WriteOutput ==
    /\ pc = "write_output"
    /\ IF exec_result = <<>>
       THEN /\ exc' = "AttributeError"
            /\ pc' = "except"
            /\ test_output' = test_output
       ELSE /\ test_output' = exec_result
            /\ pc' = "diff_after"
            /\ exc' = exc
    /\ UNCHANGED <<gold_results, eval_sm, tests_report, status, model_patch,
                   report, parser_called, report_file, rm_image, timeout,
                   cmd_hangs, logger, logger_open, container, container_state,
                   val, calls, thread, exec_id, exec_result, exception, clock,
                   outcome,
                   pid, buildVars, orchVars>>

DiffAfter ==
    /\ pc = "diff_after"
    /\ calls' = Append(calls, "git_diff")
    /\ pc' = "grade"
    /\ UNCHANGED <<gold_results, eval_sm, tests_report, status, model_patch,
                   test_output, report, parser_called, report_file, rm_image,
                   timeout, cmd_hangs, logger, logger_open, container,
                   container_state, val, thread, exec_id, exec_result, exception,
                   clock, exc, outcome,
                   pid, buildVars, orchVars>>

\* get_pred_report, which grading.py names get_eval_report
Grade ==
    /\ pc = "grade"
    /\ LET r == get_eval_report(gold_results, model_patch, test_output[1], TRUE)
       IN  /\ report' = <<r.report>>
           /\ parser_called' = r.parsed
    /\ pc' = "write_report"
    /\ UNCHANGED <<gold_results, eval_sm, tests_report, status, model_patch,
                   test_output, report_file, rm_image, timeout, cmd_hangs,
                   logger, logger_open, container, container_state, val, calls,
                   thread, exec_id, exec_result, exception, clock, exc, outcome,
                   pid, buildVars, orchVars>>

\* report.json is written and the report returned (after the finally block)
WriteReport ==
    /\ pc = "write_report"
    /\ report_file' = report
    /\ pc' = "finally"
    /\ UNCHANGED <<gold_results, eval_sm, tests_report, status, model_patch,
                   test_output, report, parser_called, rm_image, timeout,
                   cmd_hangs, logger, logger_open, container, container_state,
                   val, calls, thread, exec_id, exec_result, exception, clock,
                   exc, outcome,
                   pid, buildVars, orchVars>>

\* Except, leaving without the finally block
Except_skips_cleanup ==
    /\ pc = "except"
    /\ pc' = "close_logger"
    /\ UNCHANGED <<gold_results, eval_sm, tests_report, status, model_patch,
                   test_output, report, parser_called, report_file, rm_image,
                   timeout, cmd_hangs, logger, logger_open, container,
                   container_state, val, calls, thread, exec_id, exec_result,
                   exception, clock, exc, outcome,
                   pid, buildVars, orchVars>>

\* both handlers raise EvaluationError (after the finally block)
Except ==
    /\ pc = "except"
    /\ pc' = "finally"
    /\ UNCHANGED <<gold_results, eval_sm, tests_report, status, model_patch,
                   test_output, report, parser_called, report_file, rm_image,
                   timeout, cmd_hangs, logger, logger_open, container,
                   container_state, val, calls, thread, exec_id, exec_result,
                   exception, clock, exc, outcome,
                   pid, buildVars, orchVars>>

\* cleanup_container: nothing without a container, else container.stop
CleanupContainer ==
    /\ pc = "finally"
    /\ IF container = None
       THEN /\ pc' = "cleanup_image"
            /\ UNCHANGED <<calls, container_state>>
       ELSE /\ calls' = Append(calls, "stop")
            /\ \/ /\ container_state' = "exited"
                  /\ pc' = "remove"
               \/ /\ pc' = "inspect"
                  /\ container_state' = container_state
    /\ UNCHANGED <<gold_results, eval_sm, tests_report, status, model_patch,
                   test_output, report, parser_called, report_file, rm_image,
                   timeout, cmd_hangs, logger, logger_open, container, val,
                   thread, exec_id, exec_result, exception, clock, exc, outcome,
                   pid, buildVars, orchVars>>

\* InspectContainer, killing whatever pid is reported
InspectContainer_kills_any_pid ==
    /\ pc = "inspect"
    /\ calls' = Append(calls, "inspect_container")
    /\ \/ /\ pid' \in 0..MaxPid
          /\ pc' = "kill"
          /\ UNCHANGED <<exc, outcome>>
       \/ /\ pid' = pid
          /\ IF raise_error(logger)
             THEN /\ exc' = "APIError"
                  /\ outcome' = "raised"
                  /\ pc' = "done"
             ELSE /\ pc' = "remove"
                  /\ UNCHANGED <<exc, outcome>>
    /\ UNCHANGED <<gold_results, eval_sm, tests_report, status, model_patch,
                   test_output, report, parser_called, report_file, rm_image,
                   timeout, cmd_hangs, logger, logger_open, container,
                   container_state, val, thread, exec_id, exec_result, exception,
                   clock,
                   buildVars, orchVars>>

\* the stop failed: inspect_container gives the pid, or raises
InspectContainer ==
    /\ pc = "inspect"
    /\ calls' = Append(calls, "inspect_container")
    /\ \/ /\ pid' \in 1..MaxPid
          /\ pc' = "kill"
          /\ UNCHANGED <<exc, outcome>>
       \/ /\ pid' = 0
          /\ pc' = "remove"
          /\ UNCHANGED <<exc, outcome>>
       \/ /\ pid' = pid
          /\ IF raise_error(logger)
             THEN /\ exc' = "APIError"
                  /\ outcome' = "raised"
                  /\ pc' = "done"
             ELSE /\ pc' = "remove"
                  /\ UNCHANGED <<exc, outcome>>
    /\ UNCHANGED <<gold_results, eval_sm, tests_report, status, model_patch,
                   test_output, report, parser_called, report_file, rm_image,
                   timeout, cmd_hangs, logger, logger_open, container,
                   container_state, val, thread, exec_id, exec_result, exception,
                   clock,
                   buildVars, orchVars>>

\* pid > 0: os.kill(pid, SIGKILL), which may raise
KillContainer ==
    /\ pc = "kill"
    /\ calls' = Append(calls, "kill")
    /\ \/ /\ container_state' = "exited"
          /\ pc' = "remove"
          /\ UNCHANGED <<exc, outcome>>
       \/ /\ container_state' = container_state
          /\ IF raise_error(logger)
             THEN /\ exc' = "OSError"
                  /\ outcome' = "raised"
                  /\ pc' = "done"
             ELSE /\ pc' = "remove"
                  /\ UNCHANGED <<exc, outcome>>
    /\ UNCHANGED <<gold_results, eval_sm, tests_report, status, model_patch,
                   test_output, report, parser_called, report_file, rm_image,
                   timeout, cmd_hangs, logger, logger_open, container, val,
                   thread, exec_id, exec_result, exception, clock,
                   pid, buildVars, orchVars>>

\* RemoveContainer, raising a failed removal whatever the logger
RemoveContainer_always_raises ==
    /\ pc = "remove"
    /\ calls' = Append(calls, "remove")
    /\ \/ /\ container_state' = "removed"
          /\ pc' = "cleanup_image"
          /\ UNCHANGED <<exc, outcome>>
       \/ /\ container_state' = container_state
          /\ exc' = "APIError"
          /\ outcome' = "raised"
          /\ pc' = "done"
    /\ UNCHANGED <<gold_results, eval_sm, tests_report, status, model_patch,
                   test_output, report, parser_called, report_file, rm_image,
                   timeout, cmd_hangs, logger, logger_open, container, val,
                   thread, exec_id, exec_result, exception, clock,
                   pid, buildVars, orchVars>>

\* container.remove(force=True)
RemoveContainer ==
    /\ pc = "remove"
    /\ calls' = Append(calls, "remove")
    /\ \/ /\ container_state' = "removed"
          /\ pc' = "cleanup_image"
          /\ UNCHANGED <<exc, outcome>>
       \/ /\ container_state' = container_state
          /\ IF raise_error(logger)
             THEN /\ exc' = "APIError"
                  /\ outcome' = "raised"
                  /\ pc' = "done"
             ELSE /\ pc' = "cleanup_image"
                  /\ UNCHANGED <<exc, outcome>>
    /\ UNCHANGED <<gold_results, eval_sm, tests_report, status, model_patch,
                   test_output, report, parser_called, report_file, rm_image,
                   timeout, cmd_hangs, logger, logger_open, container, val,
                   thread, exec_id, exec_result, exception, clock,
                   pid, buildVars, orchVars>>

\* cleanup_image: the image is removed only if rm_image; a failed removal
\* is logged, or raised when raise_error
CleanupImage ==
    /\ pc = "cleanup_image"
    /\ IF rm_image
       THEN /\ calls' = Append(calls, "remove_image")
            /\ \/ /\ pc' = "close_logger"
                  /\ UNCHANGED <<exc, outcome>>
               \/ IF raise_error(logger)
                  THEN /\ exc' = "APIError"
                       /\ outcome' = "raised"
                       /\ pc' = "done"
                  ELSE /\ pc' = "close_logger"
                       /\ UNCHANGED <<exc, outcome>>
       ELSE /\ pc' = "close_logger"
            /\ UNCHANGED <<calls, exc, outcome>>
    /\ UNCHANGED <<gold_results, eval_sm, tests_report, status, model_patch,
                   test_output, report, parser_called, report_file,
                   rm_image, timeout, cmd_hangs, logger, logger_open,
                   container, container_state, val, thread, exec_id,
                   exec_result, exception, clock,
                   pid, buildVars, orchVars>>

\* close_logger, then run_instance returns the report or raises
CloseLogger ==
    /\ pc = "close_logger"
    /\ logger_open' = FALSE
    /\ outcome' = IF exc = None THEN "returned" ELSE "raised"
    /\ pc' = "done"
    /\ UNCHANGED <<gold_results, eval_sm, tests_report, status, model_patch,
                   test_output, report, parser_called, report_file, rm_image,
                   timeout, cmd_hangs, logger, container, container_state, val,
                   calls, thread, exec_id, exec_result, exception, clock, exc,
                   pid, buildVars, orchVars>>

\* the steps of the caller of exec_run_with_timeout and of run_instance
MainNext ==
    \/ RunStart
    \/ BuildContainer
    \/ ContainerStart
    \/ WritePatch
    \/ ApplyPatch
    \/ DiffBefore
    \/ ExecRun
    \/ Tick
    \/ JoinReturn
    \/ CheckException
    \/ CheckAlive
    \/ WriteOutput
    \/ DiffAfter
    \/ Grade
    \/ WriteReport
    \/ Except
    \/ CleanupContainer
    \/ InspectContainer
    \/ KillContainer
    \/ RemoveContainer
    \/ CleanupImage
    \/ CloseLogger

\* the steps of the command thread
ThreadNext == ThreadExecCreate \/ ThreadExecReturn

Next == MainNext \/ ThreadNext

Spec == Init /\ [][Next]_vars

\* Both threads are scheduled, and every engine call of the caller returns.
\* Nothing makes the eval command end.
FairSpec ==
    Spec /\ WF_vars(MainNext) /\ WF_vars(ThreadExecCreate)

(***************************************************************************)
(* cleanup_container and cleanup_image, for every logger argument          *)
(***************************************************************************)
\* the logger arguments the two functions tell apart
Loggers == {None, "quiet", "logger"}

\* a report that was computed and written before the teardown
WrittenReports ==
    {ExistingReport, [InitialReport EXCEPT !.patch_exists = TRUE]}

\* The teardown is entered as run_instance enters it: after the report was
\* written, or after an exception left the try block, with or without a
\* container, which may or may not have been started.
InitCleanup ==
    /\ pc = "finally"
    /\ logger \in Loggers
    /\ logger_open = (logger = "logger")
    /\ rm_image \in BOOLEAN
    /\ \/ /\ container = None
          /\ container_state = None
       \/ /\ container = "container"
          /\ container_state \in {"created", "running"}
    /\ \/ /\ report \in {<<r>> : r \in WrittenReports}
          /\ report_file = report
          /\ exc = None
       \/ /\ report = <<>>
          /\ report_file = <<>>
          /\ exc = "EvaluationError"
    /\ gold_results \in {g \in InstanceGoldResults : Len(g.PASS_TO_PASS) = 0}
    /\ model_patch = "diff"
    /\ eval_sm = None
    /\ tests_report = None
    /\ status = None
    /\ test_output = <<>>
    /\ parser_called = FALSE
    /\ timeout = NoTimeout
    /\ cmd_hangs = FALSE
    /\ val = <<>>
    /\ calls = <<>>
    /\ thread = "unstarted"
    /\ exec_id = None
    /\ exec_result = <<>>
    /\ exception = None
    /\ clock = 0
    /\ outcome = None
    /\ pid = NoPid
    /\ BuildIdle
    /\ OrchIdle

NextCleanup ==
    \/ CleanupContainer
    \/ InspectContainer
    \/ KillContainer
    \/ RemoveContainer
    \/ CleanupImage
    \/ CloseLogger

SpecCleanup == InitCleanup /\ [][NextCleanup]_vars

(***************************************************************************)
(* build_instance_images: base, environment and instance images            *)
(***************************************************************************)
\* newest creation time of an image that exists before the first pass
MaxCreated == 2
\* calls of build_instance_images over the same test specs
MaxPasses == 2
\* argument max_workers of the thread pools
max_workers == 2

\* the image an environment or instance image is built from
Dependency(name) ==
    IF name.tier = "env"
    THEN BaseImage(((name.key - 1) % NumBases) + 1)
    ELSE EnvImage(env_image_key(name.key))

\* base_images.items(): the base images in the order the specs name them
BaseList == [i \in 1..Cardinality(BaseImages) |-> BaseImage(i)]

\* remove_image(client, name, "quiet") for each of the names
remove_image(imgs, names) ==
    [name \in ImageNames |-> IF name \in names THEN Absent ELSE imgs[name]]

\* find_dependent_images: the images built upon an environment image
find_dependent_images(imgs, env) ==
    {name \in InstanceImages : imgs[name] # Absent /\ Dependency(name) = env}

\* env_image.attrs["Created"] < base_image.attrs["Created"], and the same
\* test of an instance image against its environment image
Stale(imgs, name) ==
    /\ imgs[name] # Absent
    /\ imgs[name] < imgs[Dependency(name)]

Present(imgs) == {name \in ImageNames : imgs[name] # Absent}
Running == {name \in ImageNames : tasks[name] = "running"}
Unfinished(names) == {name \in names : tasks[name] \in {"queued", "running"}}

\* executor.submit for each of the names
Submit(t, names) ==
    [name \in ImageNames |-> IF name \in names THEN "queued" ELSE t[name]]

\* the instance images build_instance_images submits: those of the specs
\* whose environment image is not in env_failed
InstanceTasks(failed) ==
    {InstanceImage(spec) : spec \in
        {sp \in TestSpecs : EnvImage(env_image_key(sp)) \notin failed}}

\* what the build pipeline leaves alone
nonBuildVars ==
    <<pc, gold_results, eval_sm, tests_report, status, model_patch,
      test_output, report, parser_called, runVars, orchVars>>

InitBuild ==
    /\ pc = "build"
    /\ gold_results = [FAIL_TO_PASS |-> <<>>, PASS_TO_PASS |-> <<>>]
    /\ eval_sm = None
    /\ tests_report = None
    /\ status = None
    /\ model_patch = None
    /\ test_output = <<>>
    /\ report = <<>>
    /\ parser_called = FALSE
    /\ RunIdle
    /\ OrchIdle
    /\ images \in [ImageNames -> 0..MaxCreated]
    /\ now = MaxCreated
    /\ force_rebuild \in BOOLEAN
    /\ pass = 1
    /\ bpc = "start"
    /\ base_left = <<>>
    /\ tasks = NoTasks
    /\ env_failed = {}
    /\ result = <<>>
    /\ started = {}
    /\ removed = {}
    /\ skipped = {}
    /\ earlier = "clean"

\* force_rebuild: the instance images, then the environment images, then
\* the base images of the specs are removed before anything is built
StartPass ==
    /\ bpc = "start"
    /\ LET forced == IF force_rebuild THEN Present(images) ELSE {}
       IN  /\ images' = remove_image(images, forced)
           /\ removed' = forced
    /\ base_left' = BaseList
    /\ bpc' = "base"
    /\ UNCHANGED <<nonBuildVars,
                   now, force_rebuild, pass, tasks, env_failed, result,
                   started, skipped, earlier>>

\* BaseCheck, building a base image whether or not it exists
BaseCheck_rebuilds_existing ==
    /\ bpc = "base"
    /\ base_left # <<>>
    /\ LET name == Head(base_left)
       IN  /\ images' = remove_image(images, {name})
           /\ removed' = removed \cup ({name} \cap Present(images))
           /\ tasks' = [tasks EXCEPT ![name] = "running"]
           /\ started' = started \cup {name}
           /\ bpc' = "base_build"
    /\ UNCHANGED <<nonBuildVars,
                   now, force_rebuild, pass, env_failed, result, earlier,
                   skipped, base_left>>

\* build_base_images, one turn of its loop: a base image that exists is
\* skipped, or removed under force_rebuild; else build_image is called
BaseCheck ==
    /\ bpc = "base"
    /\ base_left # <<>>
    /\ LET name == Head(base_left)
       IN  IF images[name] # Absent /\ ~force_rebuild
           THEN /\ skipped' = skipped \cup {name}
                /\ base_left' = Tail(base_left)
                /\ UNCHANGED <<images, removed, tasks, started, bpc>>
           ELSE /\ images' = remove_image(images, {name})
                /\ removed' = removed \cup ({name} \cap Present(images))
                /\ tasks' = [tasks EXCEPT ![name] = "running"]
                /\ started' = started \cup {name}
                /\ bpc' = "base_build"
                /\ UNCHANGED <<skipped, base_left>>
    /\ UNCHANGED <<nonBuildVars,
                   now, force_rebuild, pass, env_failed, result, earlier>>


\* build_image of a base image ends: the image exists, or BuildImageError
\* leaves build_base_images, build_env_images and build_instance_images
BaseBuilt ==
    /\ bpc = "base_build"
    /\ LET name == Head(base_left)
       IN  \/ /\ images' = [images EXCEPT ![name] = now + 1]
              /\ now' = now + 1
              /\ tasks' = [tasks EXCEPT ![name] = "ok"]
              /\ base_left' = Tail(base_left)
              /\ bpc' = "base"
           \/ /\ tasks' = [tasks EXCEPT ![name] = "failed"]
              /\ bpc' = "raised"
              /\ UNCHANGED <<images, now, base_left>>
    /\ UNCHANGED <<nonBuildVars,
                   force_rebuild, pass, env_failed, result, started, removed,
                   skipped, earlier>>

\* the specs whose base image client.images.get does not find
MissingBase(imgs) ==
    {spec \in TestSpecs : imgs[BaseImage(base_image_key(spec))] = Absent}

\* the first of them in the order of test_specs
FirstMissingBase(imgs) ==
    CHOOSE spec \in MissingBase(imgs) :
        \A other \in MissingBase(imgs) : spec <= other

\* the stale environment images of the specs the loop of
\* get_env_configs_to_build visits before the given one
StaleBefore(imgs, spec) ==
    {env \in {EnvImage(env_image_key(sp)) : sp \in 1..(spec - 1)} :
        Stale(imgs, env)}

\* EnvSelect, never looking for the base images
EnvSelect_ignores_missing_base ==
    /\ bpc = "base"
    /\ base_left = <<>>
    /\ LET to_build == {env \in EnvImages : images[env] = Absent}
       IN  /\ skipped' = skipped \cup (EnvImages \ to_build)
           /\ IF to_build = {}
              THEN /\ tasks' = Submit(tasks, InstanceTasks({}))
                   /\ bpc' = "instance_pool"
              ELSE /\ tasks' = Submit(tasks, to_build)
                   /\ bpc' = "env_pool"
           /\ env_failed' = {}
    /\ UNCHANGED <<nonBuildVars,
                   images, removed, now, force_rebuild, pass, base_left,
                   result, started, earlier>>

\* get_env_configs_to_build: a missing base image is fatal, after the
\* stale environment images of the specs before it were removed; a stale
\* environment image is removed after the images built upon it; what is
\* absent then is submitted to the pool, and with nothing to build
\* build_env_images returns [], [] and the instance images are submitted
EnvSelect ==
    /\ bpc = "base"
    /\ base_left = <<>>
    /\ IF MissingBase(images) # {}
       THEN LET stale == StaleBefore(images, FirstMissingBase(images))
                deps == UNION {find_dependent_images(images, env) : env \in stale}
            IN  /\ images' = remove_image(images, deps \cup stale)
                /\ removed' = removed \cup deps \cup stale
                /\ bpc' = "raised"
                /\ UNCHANGED <<skipped, tasks, env_failed>>
       ELSE LET stale == {env \in EnvImages : Stale(images, env)}
                deps == UNION {find_dependent_images(images, env) : env \in stale}
                left == remove_image(images, deps \cup stale)
                to_build == {env \in EnvImages : left[env] = Absent}
            IN  /\ images' = left
                /\ removed' = removed \cup deps \cup stale
                /\ skipped' = skipped \cup (EnvImages \ to_build)
                /\ IF to_build = {}
                   THEN /\ tasks' = Submit(tasks, InstanceTasks({}))
                        /\ bpc' = "instance_pool"
                   ELSE /\ tasks' = Submit(tasks, to_build)
                        /\ bpc' = "env_pool"
                /\ env_failed' = {}
    /\ UNCHANGED <<nonBuildVars,
                   now, force_rebuild, pass, base_left, result, started,
                   earlier>>

\* a worker of the pool takes an environment image: build_image is called
EnvBuildStart(name) ==
    /\ name \in EnvImages
    /\ tasks[name] = "queued"
    /\ Cardinality(Running) < max_workers
    /\ tasks' = [tasks EXCEPT ![name] = "running"]
    /\ started' = started \cup {name}
    /\ UNCHANGED <<nonBuildVars,
                   images, now, force_rebuild, pass, bpc, base_left,
                   env_failed, result, removed, skipped, earlier>>

\* build_image of an environment image ends: the image exists, or the
\* future holds BuildImageError
EnvBuildEnd(name) ==
    /\ name \in EnvImages
    /\ tasks[name] = "running"
    /\ \/ /\ images' = [images EXCEPT ![name] = now + 1]
          /\ now' = now + 1
          /\ tasks' = [tasks EXCEPT ![name] = "ok"]
       \/ /\ tasks' = [tasks EXCEPT ![name] = "failed"]
          /\ UNCHANGED <<images, now>>
    /\ UNCHANGED <<nonBuildVars,
                   force_rebuild, pass, bpc, base_left, env_failed, result,
                   started, removed, skipped, earlier>>

\* EnvPoolJoin, leaving the pool as soon as one future is done
EnvPoolJoin_no_wait ==
    /\ bpc = "env_pool"
    /\ \E name \in EnvImages : tasks[name] \in {"ok", "failed"}
    /\ LET failed == {name \in EnvImages : tasks[name] = "failed"}
       IN  /\ env_failed' = failed
           /\ tasks' = Submit(tasks, InstanceTasks(failed))
    /\ bpc' = "instance_pool"
    /\ UNCHANGED <<nonBuildVars,
                   images, now, force_rebuild, pass, base_left, result,
                   started, removed, skipped, earlier>>

\* every future of the environment pool is done: build_env_images returns
\* (successful, failed), and build_instance_images submits the instance
\* images of the specs whose environment image did not fail
EnvPoolJoin ==
    /\ bpc = "env_pool"
    /\ Unfinished(EnvImages) = {}
    /\ LET failed == {name \in EnvImages : tasks[name] = "failed"}
       IN  /\ env_failed' = failed
           /\ tasks' = Submit(tasks, InstanceTasks(failed))
    /\ bpc' = "instance_pool"
    /\ UNCHANGED <<nonBuildVars,
                   images, now, force_rebuild, pass, base_left, result,
                   started, removed, skipped, earlier>>


\* InstanceStart, building the instance image whether or not it exists
InstanceStart_no_cache(name) ==
    /\ name \in InstanceImages
    /\ tasks[name] = "queued"
    /\ Cardinality(Running) < max_workers
    /\ IF images[Dependency(name)] = Absent
       THEN /\ tasks' = [tasks EXCEPT ![name] = "failed"]
            /\ UNCHANGED <<images, removed, started, skipped>>
       ELSE /\ images' = remove_image(images, {name})
            /\ removed' = removed \cup ({name} \cap Present(images))
            /\ tasks' = [tasks EXCEPT ![name] = "running"]
            /\ started' = started \cup {name}
            /\ UNCHANGED skipped
    /\ UNCHANGED <<nonBuildVars,
                   now, force_rebuild, pass, bpc, base_left, env_failed,
                   result, earlier>>

\* InstanceStart, taking every instance image that exists as up to date
InstanceStart_no_staleness_check(name) ==
    /\ name \in InstanceImages
    /\ tasks[name] = "queued"
    /\ Cardinality(Running) < max_workers
    /\ IF images[Dependency(name)] = Absent
       THEN /\ tasks' = [tasks EXCEPT ![name] = "failed"]
            /\ UNCHANGED <<images, removed, started, skipped>>
       ELSE IF images[name] # Absent
            THEN /\ tasks' = [tasks EXCEPT ![name] = "ok"]
                 /\ skipped' = skipped \cup {name}
                 /\ UNCHANGED <<images, removed, started>>
            ELSE /\ tasks' = [tasks EXCEPT ![name] = "running"]
                 /\ started' = started \cup {name}
                 /\ UNCHANGED <<images, removed, skipped>>
    /\ UNCHANGED <<nonBuildVars,
                   now, force_rebuild, pass, bpc, base_left, env_failed,
                   result, earlier>>

\* a worker of the pool takes a spec, build_instance_image up to its call
\* of build_image: no environment image is BuildImageError; an instance
\* image older than its environment image is removed; an image that is
\* there is skipped, else build_image is called
InstanceStart(name) ==
    /\ name \in InstanceImages
    /\ tasks[name] = "queued"
    /\ Cardinality(Running) < max_workers
    /\ IF images[Dependency(name)] = Absent
       THEN /\ tasks' = [tasks EXCEPT ![name] = "failed"]
            /\ UNCHANGED <<images, removed, started, skipped>>
       ELSE IF images[name] # Absent /\ ~Stale(images, name)
            THEN /\ tasks' = [tasks EXCEPT ![name] = "ok"]
                 /\ skipped' = skipped \cup {name}
                 /\ UNCHANGED <<images, removed, started>>
            ELSE /\ images' = remove_image(images, {name})
                 /\ removed' = removed \cup ({name} \cap Present(images))
                 /\ tasks' = [tasks EXCEPT ![name] = "running"]
                 /\ started' = started \cup {name}
                 /\ UNCHANGED skipped
    /\ UNCHANGED <<nonBuildVars,
                   now, force_rebuild, pass, bpc, base_left, env_failed,
                   result, earlier>>

\* build_image of an instance image ends: the image exists, or the future
\* holds BuildImageError
InstanceBuildEnd(name) ==
    /\ name \in InstanceImages
    /\ tasks[name] = "running"
    /\ \/ /\ images' = [images EXCEPT ![name] = now + 1]
          /\ now' = now + 1
          /\ tasks' = [tasks EXCEPT ![name] = "ok"]
       \/ /\ tasks' = [tasks EXCEPT ![name] = "failed"]
          /\ UNCHANGED <<images, now>>
    /\ UNCHANGED <<nonBuildVars,
                   force_rebuild, pass, bpc, base_left, env_failed, result,
                   started, removed, skipped, earlier>>

\* every future of the instance pool is done: build_instance_images
\* returns (successful, failed)
InstancePoolJoin ==
    /\ bpc = "instance_pool"
    /\ Unfinished(InstanceImages) = {}
    /\ result' =
          <<[successful |-> {name \in InstanceImages : tasks[name] = "ok"},
             failed |-> {name \in InstanceImages : tasks[name] = "failed"}]>>
    /\ bpc' = "returned"
    /\ UNCHANGED <<nonBuildVars,
                   images, now, force_rebuild, pass, base_left, tasks,
                   env_failed, started, removed, skipped, earlier>>

\* build_instance_images is called again over the same test specs
Rerun ==
    /\ bpc \in {"returned", "raised"}
    /\ pass < MaxPasses
    /\ Running = {}
    /\ pass' = pass + 1
    /\ force_rebuild' \in BOOLEAN
    /\ earlier' =
          IF earlier = "raised" \/ bpc = "raised" THEN "raised"
          ELSE IF earlier = "failed" \/
                  \E name \in ImageNames : tasks[name] = "failed"
               THEN "failed"
               ELSE "clean"
    /\ bpc' = "start"
    /\ base_left' = <<>>
    /\ tasks' = NoTasks
    /\ env_failed' = {}
    /\ result' = <<>>
    /\ started' = {}
    /\ removed' = {}
    /\ skipped' = {}
    /\ UNCHANGED <<nonBuildVars, images, now>>

\* the steps of the caller of build_instance_images
PipelineNext ==
    \/ StartPass
    \/ BaseCheck
    \/ BaseBuilt
    \/ EnvSelect
    \/ EnvPoolJoin
    \/ InstancePoolJoin
    \/ Rerun

\* the steps of the workers of the two pools
WorkerNext ==
    \E name \in ImageNames :
        \/ EnvBuildStart(name)
        \/ EnvBuildEnd(name)
        \/ InstanceStart(name)
        \/ InstanceBuildEnd(name)

NextBuild == PipelineNext \/ WorkerNext

SpecBuild == InitBuild /\ [][NextBuild]_vars

\* build_env_images has returned from build_base_images and calls
\* get_env_configs_to_build; the engine holds any images, as other users
\* of the engine may have removed some
InitEnvConfigs ==
    /\ pc = "build"
    /\ gold_results = [FAIL_TO_PASS |-> <<>>, PASS_TO_PASS |-> <<>>]
    /\ eval_sm = None
    /\ tests_report = None
    /\ status = None
    /\ model_patch = None
    /\ test_output = <<>>
    /\ report = <<>>
    /\ parser_called = FALSE
    /\ RunIdle
    /\ OrchIdle
    /\ images \in [ImageNames -> 0..MaxCreated]
    /\ now = MaxCreated
    /\ force_rebuild = FALSE
    /\ pass = 1
    /\ bpc = "base"
    /\ base_left = <<>>
    /\ tasks = NoTasks
    /\ env_failed = {}
    /\ result = <<>>
    /\ started = {}
    /\ removed = {}
    /\ skipped = {name \in BaseImages : images[name] # Absent}
    /\ earlier = "clean"

SpecEnvConfigs == InitEnvConfigs /\ [][NextBuild]_vars

(***************************************************************************)
(* main: run_instances over a pool of workers, then clean_images           *)
(***************************************************************************)
\* grading does not run
GradingIdle ==
    /\ gold_results = [FAIL_TO_PASS |-> <<>>, PASS_TO_PASS |-> <<>>]
    /\ eval_sm = None
    /\ tests_report = None
    /\ status = None
    /\ model_patch = None
    /\ test_output = <<>>
    /\ report = <<>>
    /\ parser_called = FALSE

\* what main and run_instances leave alone
nonPoolVars ==
    <<pc, gold_results, eval_sm, tests_report, status, model_patch,
      test_output, report, parser_called, runVars, buildVars,
      reportVars, modalVars, configVars, imageVars, batchVars>>

CacheLevels == {"none", "base", "env", "instance"}

\* the images of a run: a base, an environment, one image per instance
RunImages ==
    {BaseImage(1), EnvImage(1)} \cup {InstanceImage(i) : i \in Instances}

\* the retention policy: a cache level keeps its tier and the tiers below
\* it, and an image that existed before the run is kept unless clean is set
should_remove(image_name, cache_level, clean_flag, prior) ==
    LET existed_before == image_name \in prior
        tier_removed ==
            IF image_name.tier = "base" THEN cache_level \in {"none"}
            ELSE IF image_name.tier = "env"
                 THEN cache_level \in {"none", "base"}
                 ELSE cache_level \in {"none", "base", "env"}
    IN  tier_removed /\ (clean_flag \/ ~existed_before)

\* how a future can end: run_instance returned or raised
Finished == {"returned", "EvaluationError", "Exception"}

InitRun ==
    /\ pc = "main"
    /\ GradingIdle
    /\ RunIdle
    /\ BuildIdle
    /\ ReportIdle
    /\ ModalIdle
    /\ ToolsIdle
    /\ rpc = "start"
    /\ futures = [i \in Instances |-> "none"]
    /\ collected = {}
    /\ docker_images \in SUBSET RunImages
    /\ prior_images = docker_images
    /\ existing_images = {}
    /\ cache \in CacheLevels
    /\ clean \in BOOLEAN
    /\ rm_images = [i \in Instances |-> FALSE]
    /\ report_paths \in [Instances -> {"none", "report"}]
    /\ executed = {}
    /\ cleaned = {}
    /\ failed_removals = {}

\* run_instances lists the instance images already there and submits one
\* run_instance per spec, its rm_image decided at submission
RunInstancesSubmit ==
    /\ rpc = "start"
    /\ LET found == {name \in docker_images : name.tier = "instance"}
       IN  /\ existing_images' = found
           /\ rm_images' = [i \in Instances |->
                  should_remove(InstanceImage(i), cache, clean, found)]
    /\ futures' = [i \in Instances |-> "queued"]
    /\ rpc' = "collect"
    /\ UNCHANGED <<collected, docker_images, prior_images, cache, clean,
                   report_paths, executed, cleaned, failed_removals>>
    /\ UNCHANGED nonPoolVars

\* a worker takes run_instance(i): an existing report is returned at once,
\* making the log directory or the logger can fail, else the instance image
\* is built if it is absent
RunInstanceStart(i) ==
    /\ futures[i] = "queued"
    /\ Cardinality({j \in Instances : futures[j] = "running"}) < max_workers
    /\ \/ /\ report_paths[i] = "report"
          /\ futures' = [futures EXCEPT ![i] = "returned"]
          /\ UNCHANGED <<docker_images, executed>>
       \/ /\ futures' = [futures EXCEPT ![i] = "Exception"]
          /\ UNCHANGED <<docker_images, executed>>
       \/ /\ report_paths[i] = "none"
          /\ futures' = [futures EXCEPT ![i] = "running"]
          /\ executed' = executed \cup {i}
          /\ \/ docker_images' = docker_images \cup {InstanceImage(i)}
             \/ docker_images' = docker_images
    /\ UNCHANGED <<rpc, collected, prior_images, existing_images, cache,
                   clean, rm_images, report_paths, cleaned, failed_removals>>
    /\ UNCHANGED nonPoolVars

\* run_instance(i) ends: the report is written and returned, or
\* EvaluationError is raised; its finally block runs cleanup_image first
RunInstanceEnd_always_removes(i) ==
    /\ futures[i] = "running"
    /\ \/ /\ InstanceImage(i) \in docker_images
          /\ futures' = [futures EXCEPT ![i] = "returned"]
          /\ report_paths' = [report_paths EXCEPT ![i] = "report"]
       \/ /\ futures' = [futures EXCEPT ![i] = "EvaluationError"]
          /\ UNCHANGED report_paths
    /\ docker_images' = docker_images \ {InstanceImage(i)}
    /\ cleaned' = cleaned \cup ({InstanceImage(i)} \cap docker_images)
    /\ UNCHANGED failed_removals
    /\ UNCHANGED <<rpc, collected, prior_images, existing_images, cache,
                   clean, rm_images, executed>>
    /\ UNCHANGED nonPoolVars

RunInstanceEnd(i) ==
    /\ futures[i] = "running"
    /\ \/ /\ InstanceImage(i) \in docker_images
          /\ futures' = [futures EXCEPT ![i] = "returned"]
          /\ report_paths' = [report_paths EXCEPT ![i] = "report"]
       \/ /\ futures' = [futures EXCEPT ![i] = "EvaluationError"]
          /\ UNCHANGED report_paths
    /\ IF rm_images[i]
       THEN \/ /\ docker_images' = docker_images \ {InstanceImage(i)}
               /\ cleaned' = cleaned \cup ({InstanceImage(i)} \cap docker_images)
               /\ UNCHANGED failed_removals
            \/ /\ failed_removals' = failed_removals \cup {InstanceImage(i)}
               /\ UNCHANGED <<docker_images, cleaned>>
       ELSE UNCHANGED <<docker_images, cleaned, failed_removals>>
    /\ UNCHANGED <<rpc, collected, prior_images, existing_images, cache,
                   clean, rm_images, executed>>
    /\ UNCHANGED nonPoolVars

\* the as_completed loop visits a finished future: future.result() returns,
\* or raises what run_instance raised, which is printed and passed over
Collect_reraises(i) ==
    /\ rpc = "collect"
    /\ futures[i] \in Finished
    /\ i \notin collected
    /\ collected' = collected \cup {i}
    /\ rpc' = IF futures[i] = "returned" THEN rpc ELSE "raised"
    /\ UNCHANGED <<futures, docker_images, prior_images, existing_images,
                   cache, clean, rm_images, report_paths, executed, cleaned,
                   failed_removals>>
    /\ UNCHANGED nonPoolVars

Collect(i) ==
    /\ rpc = "collect"
    /\ futures[i] \in Finished
    /\ i \notin collected
    /\ collected' = collected \cup {i}
    /\ UNCHANGED <<rpc, futures, docker_images, prior_images, existing_images,
                   cache, clean, rm_images, report_paths, executed, cleaned,
                   failed_removals>>
    /\ UNCHANGED nonPoolVars

\* every future was visited: the pool is shut down and run_instances returns
RunInstancesReturn ==
    /\ rpc = "collect"
    /\ collected = Instances
    /\ rpc' = "clean_images"
    /\ UNCHANGED <<futures, collected, docker_images, prior_images,
                   existing_images, cache, clean, rm_images, report_paths,
                   executed, cleaned, failed_removals>>
    /\ UNCHANGED nonPoolVars

\* clean_images removes the images the policy does not keep; the engine
\* can refuse a removal
CleanImages ==
    /\ rpc = "clean_images"
    /\ \E refused \in SUBSET {name \in docker_images :
                        should_remove(name, cache, clean, prior_images)} :
          LET gone == {name \in docker_images :
                          should_remove(name, cache, clean, prior_images)}
                      \ refused
          IN  /\ docker_images' = docker_images \ gone
              /\ cleaned' = cleaned \cup gone
              /\ failed_removals' = failed_removals \cup refused
    /\ rpc' = "done"
    /\ UNCHANGED <<futures, collected, prior_images, existing_images, cache,
                   clean, rm_images, report_paths, executed>>
    /\ UNCHANGED nonPoolVars

NextRun ==
    \/ RunInstancesSubmit
    \/ \E i \in Instances : RunInstanceStart(i)
    \/ \E i \in Instances : RunInstanceEnd(i)
    \/ \E i \in Instances : Collect(i)
    \/ RunInstancesReturn
    \/ CleanImages

SpecRun == InitRun /\ [][NextRun]_vars

(***************************************************************************)
(* make_run_report of run_evaluation.py and of run_evaluation_modal.py     *)
(***************************************************************************)
\* what make_run_report leaves alone
nonReportVars ==
    <<pc, gold_results, eval_sm, tests_report, status, model_patch,
      test_output, report, parser_called, runVars, buildVars, poolVars,
      modalVars, configVars, imageVars, batchVars>>

\* model_patch values of a prediction: empty, null, or a diff
Patches == {"", None, "diff"}
Predictions == [Instances -> {<<>>} \cup {<<p>> : p \in Patches}]

\* report.json: absent, not parseable, or a report with its resolved flag
ReportJsons == {"none", "unreadable", "resolved", "unresolved"}

\* sorted(ids): the ids in ascending order
RECURSIVE sorted(_)
sorted(ids) ==
    IF ids = {} THEN <<>>
    ELSE LET least == CHOOSE i \in ids : \A j \in ids : i <= j
         IN  <<least>> \o sorted(ids \ {least})

\* the name of the run-report file: model_name_or_path of the first
\* prediction, then the run id
model_name_or_path == "model"
run_id == "run_id"
report_file_name == <<model_name_or_path, run_id>>

InitRunReport ==
    /\ pc = "report"
    /\ GradingIdle
    /\ RunIdle
    /\ BuildIdle
    /\ PoolIdle
    /\ ModalIdle
    /\ ToolsIdle
    /\ mrpc = "call"
    /\ predictions \in Predictions
    /\ report_json \in [Instances -> ReportJsons]
    /\ dataset \in {Instances, {i \in Instances : predictions[i] # <<>>}}
    /\ listed_images \in SUBSET {InstanceImage(i) : i \in Instances}
    /\ session_containers \in SUBSET Instances
    /\ called = None
    /\ run_report = <<>>
    /\ written_files = {}
    /\ returned_path = <<>>

\* make_run_report of run_evaluation.py: predictions[instance_id] raises
\* KeyError for an instance without a prediction and json.loads raises on a
\* report that does not parse; else the report file is written and the
\* function ends without a return statement
MakeRunReport ==
    /\ mrpc = "call"
    /\ called' = "docker"
    /\ LET completed_ids == {i \in dataset : report_json[i] # "none"}
           resolved_ids == {i \in dataset : report_json[i] = "resolved"}
           error_ids == {i \in dataset : report_json[i] = "none"}
           unremoved_images ==
               {InstanceImage(i) : i \in dataset} \cap listed_images
           unstopped_containers == session_containers
       IN  IF \/ \E i \in dataset : predictions[i] = <<>>
              \/ \E i \in dataset : report_json[i] = "unreadable"
              \/ \A i \in Instances : predictions[i] = <<>>
           THEN /\ mrpc' = "raised"
                /\ UNCHANGED <<run_report, written_files>>
           ELSE /\ mrpc' = "done"
                /\ run_report' =
                      <<[total_instances |-> Cardinality(dataset),
                         completed_instances |-> Cardinality(completed_ids),
                         resolved_instances |-> Cardinality(resolved_ids),
                         error_instances |-> Cardinality(error_ids),
                         unstopped_instances |->
                             Cardinality(unstopped_containers),
                         completed_ids |-> sorted(completed_ids),
                         resolved_ids |-> sorted(resolved_ids),
                         error_ids |-> sorted(error_ids),
                         unstopped_containers |->
                             sorted(unstopped_containers),
                         unremoved_images |->
                             sorted({name.key : name \in unremoved_images})]>>
                /\ written_files' = written_files \cup {report_file_name}
    /\ returned_path' = <<>>
    /\ UNCHANGED <<predictions, report_json, dataset, listed_images,
                   session_containers>>
    /\ UNCHANGED nonReportVars

\* the variant that takes an unreadable report for an unresolved one too
modal_id_sets_unreadable_twice(preds, reports, full_dataset) ==
    LET submitted == {i \in full_dataset : preds[i] # <<>>}
        with_patch == {i \in submitted : preds[i][1] \notin {"", None}}
        with_report == {i \in with_patch : reports[i] # "none"}
    IN  [incomplete_ids |-> full_dataset \ submitted,
         empty_patch_ids |-> submitted \ with_patch,
         completed_ids |-> with_report,
         resolved_ids |-> {i \in with_report : reports[i] = "resolved"},
         unresolved_ids |-> {i \in with_report : reports[i] # "resolved"},
         error_ids |-> (with_patch \ with_report) \cup
                       {i \in with_report : reports[i] = "unreadable"}]

\* the id sets of make_run_report of run_evaluation_modal.py: an instance
\* without a prediction is incomplete, one with an empty or null patch is
\* empty-patch, one without report.json is an error, and one with a report
\* is completed and resolved, unresolved or, if the report does not load,
\* an error
modal_id_sets(preds, reports, full_dataset) ==
    LET submitted == {i \in full_dataset : preds[i] # <<>>}
        with_patch == {i \in submitted : preds[i][1] \notin {"", None}}
        with_report == {i \in with_patch : reports[i] # "none"}
    IN  [incomplete_ids |-> full_dataset \ submitted,
         empty_patch_ids |-> submitted \ with_patch,
         completed_ids |-> with_report,
         resolved_ids |-> {i \in with_report : reports[i] = "resolved"},
         unresolved_ids |-> {i \in with_report : reports[i] = "unresolved"},
         error_ids |-> (with_patch \ with_report) \cup
                       {i \in with_report : reports[i] = "unreadable"}]

\* the report make_run_report of run_evaluation_modal.py writes
modal_run_report(preds, reports, full_dataset) ==
    LET ids == modal_id_sets(preds, reports, full_dataset)
        submitted_ids == {i \in Instances : preds[i] # <<>>}
    IN  [total_instances |-> Cardinality(full_dataset),
         submitted_instances |-> Cardinality(submitted_ids),
         completed_instances |-> Cardinality(ids.completed_ids),
         resolved_instances |-> Cardinality(ids.resolved_ids),
         unresolved_instances |-> Cardinality(ids.unresolved_ids),
         empty_patch_instances |-> Cardinality(ids.empty_patch_ids),
         error_instances |-> Cardinality(ids.error_ids),
         completed_ids |-> sorted(ids.completed_ids),
         incomplete_ids |-> sorted(ids.incomplete_ids),
         empty_patch_ids |-> sorted(ids.empty_patch_ids),
         submitted_ids |-> sorted(submitted_ids),
         resolved_ids |-> sorted(ids.resolved_ids),
         unresolved_ids |-> sorted(ids.unresolved_ids),
         error_ids |-> sorted(ids.error_ids),
         schema_version |-> 2]

\* make_run_report of run_evaluation_modal.py: with no prediction at all
\* the name of the report file cannot be made (IndexError); else the report
\* file is written and its path returned
ModalMakeRunReport ==
    /\ mrpc = "call"
    /\ called' = "modal"
    /\ IF \A i \in Instances : predictions[i] = <<>>
       THEN /\ mrpc' = "raised"
            /\ UNCHANGED <<run_report, written_files, returned_path>>
       ELSE /\ mrpc' = "done"
            /\ run_report' = <<modal_run_report(predictions, report_json,
                                                dataset)>>
            /\ written_files' = written_files \cup {report_file_name}
            /\ returned_path' = <<report_file_name>>
    /\ UNCHANGED <<predictions, report_json, dataset, listed_images,
                   session_containers>>
    /\ UNCHANGED nonReportVars

NextRunReport == MakeRunReport \/ ModalMakeRunReport

SpecRunReport == InitRunReport /\ [][NextRunReport]_vars

(***************************************************************************)
(* run_instances_modal and run_instance_modal                              *)
(***************************************************************************)
\* runs of run_instances_modal over the same log directories
MaxRuns == 2

\* what the modal backend leaves alone
nonModalVars ==
    <<pc, gold_results, eval_sm, tests_report, status, model_patch,
      test_output, report, parser_called, runVars, buildVars, poolVars,
      configVars, imageVars, batchVars>>

\* the instances main takes from get_dataset_from_preds: those of the
\* dataset that have a prediction and, with exclude_completed, no report
\* among the run_instance logs
get_dataset_from_preds(preds, completed_ids, exclude_completed) ==
    {i \in Instances :
        /\ preds[i] # <<>>
        /\ ~(exclude_completed /\ i \in completed_ids)}

\* how a run_instance_modal call can end: a TestOutput with a report, a
\* TestOutput with errored set, or EvaluationError raised to the caller
SandboxEnded == {"resolved", "unresolved", "errored", "raised"}

InitModal ==
    /\ pc = "modal"
    /\ GradingIdle
    /\ RunIdle
    /\ BuildIdle
    /\ PoolIdle
    /\ ToolsIdle
    /\ mrpc = "idle"
    /\ predictions \in Predictions
    /\ report_json = [i \in Instances |-> "none"]
    /\ dataset = Instances
    /\ listed_images = {}
    /\ session_containers = {}
    /\ called = None
    /\ run_report = <<>>
    /\ written_files = {}
    /\ returned_path = <<>>
    /\ mpc = "start"
    /\ run = 1
    /\ log_dirs = [i \in Instances |-> FALSE]
    /\ run_test_specs = {}
    /\ sandbox = [i \in Instances |-> "none"]
    /\ commands = [i \in Instances |-> <<>>]
    /\ saved = {}
    /\ errored_earlier = {}

\* run_instances_modal keeps the instances whose log directory does not
\* exist and hands them to starmap
ModalSelect ==
    /\ mpc = "start"
    /\ LET instances == get_dataset_from_preds(predictions, {}, TRUE)
           selected == {i \in instances : ~log_dirs[i]}
       IN  /\ run_test_specs' = selected
           /\ sandbox' = [i \in Instances |->
                             IF i \in selected THEN "queued" ELSE "none"]
    /\ mpc' = "results"
    /\ UNCHANGED <<run, log_dirs, commands, saved, errored_earlier>>
    /\ UNCHANGED <<reportVars, nonModalVars>>

\* run_instance_modal(i) creates its sandbox; a failure is raised to the
\* caller as EvaluationError
ModalSandbox(i) ==
    /\ sandbox[i] = "queued"
    /\ \/ sandbox' = [sandbox EXCEPT ![i] = "created"]
       \/ sandbox' = [sandbox EXCEPT ![i] = "raised"]
    /\ UNCHANGED <<mpc, run, log_dirs, run_test_specs, commands, saved,
                   errored_earlier>>
    /\ UNCHANGED <<reportVars, nonModalVars>>

\* the patch is written to the sandbox and git apply is run: exit code 0
\* goes on to the tests, any other exit code to the second attempt; an
\* exception of the write ends the call with an errored TestOutput
ModalGitApply(i) ==
    /\ sandbox[i] = "created"
    /\ \/ /\ sandbox' = [sandbox EXCEPT ![i] = "errored"]
          /\ UNCHANGED commands
       \/ /\ sandbox' = [sandbox EXCEPT ![i] = "applied"]
          /\ commands' = [commands EXCEPT ![i] = Append(@, "git_apply:0")]
       \/ /\ sandbox' = [sandbox EXCEPT ![i] = "retry"]
          /\ commands' = [commands EXCEPT ![i] = Append(@, "git_apply:1")]
    /\ UNCHANGED <<mpc, run, log_dirs, run_test_specs, saved, errored_earlier>>
    /\ UNCHANGED <<reportVars, nonModalVars>>

\* the second attempt, patch --batch --fuzz=5: exit code 0 goes on to the
\* tests, any other raises EvaluationError, which run_instance_modal
\* catches and turns into an errored TestOutput
ModalPatchRetry_ignores_exit_code(i) ==
    /\ sandbox[i] = "retry"
    /\ sandbox' = [sandbox EXCEPT ![i] = "applied"]
    /\ \/ commands' = [commands EXCEPT ![i] = Append(@, "patch:0")]
       \/ commands' = [commands EXCEPT ![i] = Append(@, "patch:1")]
    /\ UNCHANGED <<mpc, run, log_dirs, run_test_specs, saved, errored_earlier>>
    /\ UNCHANGED <<reportVars, nonModalVars>>

ModalPatchRetry(i) ==
    /\ sandbox[i] = "retry"
    /\ \/ /\ sandbox' = [sandbox EXCEPT ![i] = "applied"]
          /\ commands' = [commands EXCEPT ![i] = Append(@, "patch:0")]
       \/ /\ sandbox' = [sandbox EXCEPT ![i] = "errored"]
          /\ commands' = [commands EXCEPT ![i] = Append(@, "patch:1")]
    /\ UNCHANGED <<mpc, run, log_dirs, run_test_specs, saved, errored_earlier>>
    /\ UNCHANGED <<reportVars, nonModalVars>>

\* git diff, then the eval script: its output is kept, or the sandbox times
\* out, which is raised to the caller as EvaluationError, or another
\* exception ends the call with an errored TestOutput
ModalEval(i) ==
    /\ sandbox[i] = "applied"
    /\ commands' = [commands EXCEPT ![i] = @ \o <<"git_diff", "eval">>]
    /\ \E next \in {"tested", "raised", "errored"} :
          sandbox' = [sandbox EXCEPT ![i] = next]
    /\ UNCHANGED <<mpc, run, log_dirs, run_test_specs, saved, errored_earlier>>
    /\ UNCHANGED <<reportVars, nonModalVars>>

\* git diff again, then get_eval_report: the TestOutput carries the report,
\* or an exception ends the call with an errored TestOutput
ModalGrade(i) ==
    /\ sandbox[i] = "tested"
    /\ commands' = [commands EXCEPT ![i] = Append(@, "git_diff")]
    /\ \E next \in {"resolved", "unresolved", "errored"} :
          sandbox' = [sandbox EXCEPT ![i] = next]
    /\ UNCHANGED <<mpc, run, log_dirs, run_test_specs, saved, errored_earlier>>
    /\ UNCHANGED <<reportVars, nonModalVars>>

\* the results loop takes the next result in the order of submission: an
\* exception of the call is raised here and ends run_instances_modal; else
\* the log directory is made and report.json is opened for writing before
\* the report string is parsed, so an errored result leaves it empty
ModalSave ==
    /\ mpc = "results"
    /\ run_test_specs \ saved # {}
    /\ LET i == CHOOSE j \in run_test_specs \ saved :
                    \A k \in run_test_specs \ saved : j <= k
       IN  /\ sandbox[i] \in SandboxEnded
           /\ IF sandbox[i] = "raised"
              THEN /\ mpc' = "raised"
                   /\ UNCHANGED <<log_dirs, report_json, saved>>
              ELSE /\ log_dirs' = [log_dirs EXCEPT ![i] = TRUE]
                   /\ report_json' =
                         [report_json EXCEPT ![i] =
                             IF sandbox[i] = "errored" THEN "unreadable"
                             ELSE sandbox[i]]
                   /\ saved' = saved \cup {i}
                   /\ UNCHANGED mpc
    /\ UNCHANGED <<run, run_test_specs, sandbox, commands, errored_earlier>>
    /\ UNCHANGED <<mrpc, predictions, dataset, listed_images,
                   session_containers, called, run_report, written_files,
                   returned_path>>
    /\ UNCHANGED nonModalVars

\* every result was saved: make_run_report is called
ModalResultsDone ==
    /\ mpc = "results"
    /\ run_test_specs \ saved = {}
    /\ mpc' = "report"
    /\ mrpc' = "call"
    /\ UNCHANGED <<run, log_dirs, run_test_specs, sandbox, commands, saved,
                   errored_earlier>>
    /\ UNCHANGED <<predictions, report_json, dataset, listed_images,
                   session_containers, called, run_report, written_files,
                   returned_path>>
    /\ UNCHANGED nonModalVars

\* run_instances_modal ends as make_run_report did
ModalReturn ==
    /\ mpc = "report"
    /\ mrpc \in {"done", "raised"}
    /\ mpc' = IF mrpc = "done" THEN "done" ELSE "raised"
    /\ UNCHANGED <<run, log_dirs, run_test_specs, sandbox, commands, saved,
                   errored_earlier>>
    /\ UNCHANGED <<reportVars, nonModalVars>>

\* the evaluation is started again with the same predictions and run id
ModalRerun ==
    /\ mpc \in {"done", "raised"}
    /\ run < MaxRuns
    /\ run' = run + 1
    /\ mpc' = "start"
    /\ errored_earlier' =
          errored_earlier \cup {i \in saved : sandbox[i] = "errored"}
    /\ run_test_specs' = {}
    /\ sandbox' = [i \in Instances |-> "none"]
    /\ commands' = [i \in Instances |-> <<>>]
    /\ saved' = {}
    /\ mrpc' = "idle"
    /\ called' = None
    /\ run_report' = <<>>
    /\ returned_path' = <<>>
    /\ UNCHANGED <<log_dirs, predictions, report_json, dataset, listed_images,
                   session_containers, written_files>>
    /\ UNCHANGED nonModalVars

SandboxNext ==
    \E i \in Instances :
        \/ ModalSandbox(i)
        \/ ModalGitApply(i)
        \/ ModalPatchRetry(i)
        \/ ModalEval(i)
        \/ ModalGrade(i)

NextModal ==
    \/ ModalSelect
    \/ SandboxNext
    \/ ModalSave
    \/ ModalResultsDone
    \/ ModalMakeRunReport
    \/ ModalReturn
    \/ ModalRerun

SpecModal == InitModal /\ [][NextModal]_vars

\* an instance is run by one of the two backends: run_instance, or
\* run_instances_modal
InitBackends == Init \/ InitModal
NextBackends == Next \/ NextModal
SpecBackends == InitBackends /\ [][NextBackends]_vars

(***************************************************************************)
(* The install table lookups: build_container and _custom_restraints       *)
(***************************************************************************)
\* what the install table holds for the (repo, version) of an instance: an
\* entry, no entry for the version, no entry for the repo, or version None
InstallKeys == {"known", "no_version", "no_repo", "no_version_given"}

\* what the install table lookups leave alone
nonConfigVars ==
    <<pc, gold_results, eval_sm, tests_report, status, model_patch,
      test_output, report, parser_called, runVars, buildVars, poolVars,
      reportVars, modalVars, imageVars, batchVars>>

InitConfig ==
    /\ pc = "config"
    /\ GradingIdle
    /\ RunIdle
    /\ BuildIdle
    /\ PoolIdle
    /\ ReportIdle
    /\ ModalIdle
    /\ ImageIdle
    /\ BatchIdle
    /\ cpc = "start"
    /\ install_key \in [Instances -> InstallKeys]
    /\ task_instances_grouped = Instances
    /\ built = [i \in Instances |-> "none"]

\* TestbedContextManager._custom_restraints: the instances without a
\* version are removed, then those whose version the install table of
\* their repo lacks; a repo the table lacks raises KeyError
CustomRestraints ==
    /\ cpc = "start"
    /\ LET given == {i \in task_instances_grouped :
                        install_key[i] # "no_version_given"}
       IN  IF \E i \in given : install_key[i] = "no_repo"
           THEN /\ cpc' = "KeyError"
                /\ UNCHANGED task_instances_grouped
           ELSE /\ cpc' = "testbed"
                /\ task_instances_grouped' =
                      {i \in given : install_key[i] = "known"}
    /\ UNCHANGED <<install_key, built>>
    /\ UNCHANGED nonConfigVars

\* build_container first builds the instance image
BuildInstanceImage(i) ==
    /\ cpc \in {"start", "docker"}
    /\ built[i] = "none"
    /\ cpc' = "docker"
    /\ \/ built' = [built EXCEPT ![i] = "image"]
       \/ built' = [built EXCEPT ![i] = "BuildImageError"]
    /\ UNCHANGED <<install_key, task_instances_grouped>>
    /\ UNCHANGED nonConfigVars

\* then it reads the configuration of (repo, version) and creates the
\* container inside one try: a missing entry (KeyError) and a failed
\* creation are both raised as BuildImageError
CreateContainer(i) ==
    /\ cpc = "docker"
    /\ built[i] = "image"
    /\ IF install_key[i] = "known"
       THEN \/ built' = [built EXCEPT ![i] = "container"]
            \/ built' = [built EXCEPT ![i] = "BuildImageError"]
       ELSE built' = [built EXCEPT ![i] = "BuildImageError"]
    /\ UNCHANGED <<cpc, install_key, task_instances_grouped>>
    /\ UNCHANGED nonConfigVars

NextConfig ==
    \/ CustomRestraints
    \/ \E i \in Instances : BuildInstanceImage(i)
    \/ \E i \in Instances : CreateContainer(i)

SpecConfig == InitConfig /\ [][NextConfig]_vars

(***************************************************************************)
(* build_image                                                             *)
(***************************************************************************)
\* longest build stream
MaxChunks == 3

\* a decoded chunk of the build stream has the key "stream" or the key
\* "errorDetail" or neither
ChunkKinds == {"stream", "errorDetail", "aux"}
RECURSIVE ChunkSeqs(_)
ChunkSeqs(n) ==
    IF n = 0 THEN {<<>>}
    ELSE ChunkSeqs(n - 1) \cup
         {Append(c, k) : c \in {d \in ChunkSeqs(n - 1) : Len(d) = n - 1},
                         k \in ChunkKinds}

\* the arguments image_name and build_dir / "build_image.log"
image_name == "image_name"
log_file == "build_image.log"

\* close_logger removes handlers from the list it iterates over, so the
\* loop visits every other handler: of n handlers n \div 2 stay open
close_logger(n) == n \div 2

\* the BuildImageError raised for this image and logger
BuildImageError == [image_name |-> image_name, log_path |-> log_file]

\* what build_image leaves alone
nonImageVars ==
    <<pc, gold_results, eval_sm, tests_report, status, model_patch,
      test_output, report, parser_called, runVars, buildVars, poolVars,
      reportVars, modalVars, configVars, batchVars>>

InitImage ==
    /\ pc = "build_image"
    /\ GradingIdle
    /\ RunIdle
    /\ BuildIdle
    /\ PoolIdle
    /\ ReportIdle
    /\ ModalIdle
    /\ ConfigIdle
    /\ BatchIdle
    /\ ipc = "start"
    /\ chunks \in ChunkSeqs(MaxChunks)
    /\ consumed = <<>>
    /\ handlers = 0
    /\ buildlog = 0
    /\ build_error = <<>>
    /\ failed_step = None

\* setup_logger adds the file handler of the build log
SetupLogger ==
    /\ ipc = "start"
    /\ handlers' = handlers + 1
    /\ ipc' = "write_context"
    /\ UNCHANGED <<chunks, consumed, buildlog, build_error, failed_step>>
    /\ UNCHANGED nonImageVars

\* an exception of step raised inside the try: the handler raises
\* BuildImageError and the finally block closes the logger
Raise(step) ==
    /\ failed_step' = step
    /\ build_error' = <<BuildImageError>>
    /\ handlers' = close_logger(handlers)
    /\ ipc' = "raised"

\* the setup scripts and the Dockerfile are written to the build directory
WriteContext ==
    /\ ipc = "write_context"
    /\ \/ /\ ipc' = "api_build"
          /\ UNCHANGED <<handlers, build_error, failed_step>>
       \/ Raise("write_context")
    /\ UNCHANGED <<chunks, consumed, buildlog>>
    /\ UNCHANGED nonImageVars

\* client.api.build starts the build and returns the stream
ApiBuild ==
    /\ ipc = "api_build"
    /\ \/ /\ ipc' = "stream"
          /\ UNCHANGED <<handlers, build_error, failed_step>>
       \/ Raise("api_build")
    /\ UNCHANGED <<chunks, consumed, buildlog>>
    /\ UNCHANGED nonImageVars

\* the variant that passes over error-detail chunks
ReadChunk_ignores_error_detail ==
    /\ ipc = "stream"
    /\ chunks # <<>>
    /\ consumed' = Append(consumed, Head(chunks))
    /\ chunks' = Tail(chunks)
    /\ buildlog' = IF Head(chunks) = "stream" THEN buildlog + 1 ELSE buildlog
    /\ UNCHANGED <<ipc, handlers, build_error, failed_step>>
    /\ UNCHANGED nonImageVars

\* the loop over the stream reads one chunk: a stream chunk is logged and
\* appended to buildlog, an error-detail chunk raises docker's BuildError,
\* any other chunk is passed over; reading can fail with another exception
ReadChunk ==
    /\ ipc = "stream"
    /\ chunks # <<>>
    /\ \/ /\ consumed' = Append(consumed, Head(chunks))
          /\ chunks' = Tail(chunks)
          /\ IF Head(chunks) = "errorDetail"
             THEN /\ Raise("errorDetail")
                  /\ UNCHANGED buildlog
             ELSE /\ buildlog' = IF Head(chunks) = "stream"
                                  THEN buildlog + 1 ELSE buildlog
                  /\ UNCHANGED <<ipc, handlers, build_error, failed_step>>
       \/ /\ Raise("stream")
          /\ UNCHANGED <<chunks, consumed, buildlog>>
    /\ UNCHANGED nonImageVars

\* the stream ended: "Image built successfully!" is logged, the finally
\* block closes the logger and build_image returns
StreamEnd ==
    /\ ipc = "stream"
    /\ chunks = <<>>
    /\ handlers' = close_logger(handlers)
    /\ ipc' = "returned"
    /\ UNCHANGED <<chunks, consumed, buildlog, build_error, failed_step>>
    /\ UNCHANGED nonImageVars

NextImage == SetupLogger \/ WriteContext \/ ApiBuild \/ ReadChunk \/ StreamEnd

SpecImage == InitImage /\ [][NextImage]_vars


(***************************************************************************)
(* build_instance_images over a batch that may name a spec more than once, *)
(* and the prepare_image loggers of build_instance_image                   *)
(***************************************************************************)
\* specs in a batch
MaxBatch == 2

\* a dataset: a list of specs, in which a spec may occur more than once
Batches == UNION {[1..n -> TestSpecs] : n \in 1..MaxBatch}

\* what build_instance_images over a batch leaves alone
nonBatchVars ==
    <<pc, gold_results, eval_sm, tests_report, status, model_patch,
      test_output, report, parser_called, runVars, buildVars, poolVars,
      reportVars, modalVars, configVars, imageVars>>

\* the keys of a dict filled by d[name] = ... for each name in turn
RECURSIVE dict_keys(_)
dict_keys(names) ==
    IF names = <<>> THEN <<>>
    ELSE LET front == dict_keys(SubSeq(names, 1, Len(names) - 1))
             name == names[Len(names)]
         IN  IF \E k \in 1..Len(front) : front[k] = name
             THEN front
             ELSE Append(front, name)

\* the loop of close_logger from the index the iterator has reached: the
\* handler there is closed and removed from the list being iterated over
RECURSIVE close_logger_from(_, _)
close_logger_from(hs, idx) ==
    IF idx > Len(hs) THEN hs
    ELSE close_logger_from(
             SubSeq(hs, 1, idx - 1) \o SubSeq(hs, idx + 1, Len(hs)), idx + 1)

\* logger.handlers after close_logger(logger)
handlers_after_close(hs) == close_logger_from(hs, 1)

\* a future of a pool: the image it builds, the spec it was submitted for
\* (0 in the environment tier), its state, and the handler its call of
\* setup_logger made (0 if none)
Future(name, spec) ==
    [name |-> name, spec |-> spec, state |-> "queued", handler |-> 0]

BatchRunning == {k \in 1..Len(futs) : futs[k].state = "running"}
BatchUnfinished ==
    {k \in 1..Len(futs) : futs[k].state \in {"queued", "running"}}

\* the futures build_instance_images submits, one for each spec of the
\* batch whose environment image is not in env_failed
InstanceFutures(failed) ==
    LET specs == SelectSeq(batch,
                     LAMBDA spec : EnvImage(env_image_key(spec)) \notin failed)
    IN  [k \in 1..Len(specs) |-> Future(InstanceImage(specs[k]), specs[k])]

InitBatch ==
    /\ pc = "batch"
    /\ GradingIdle
    /\ RunIdle
    /\ BuildIdle
    /\ PoolIdle
    /\ ReportIdle
    /\ ModalIdle
    /\ ConfigIdle
    /\ ImageIdle
    /\ qpc = "start"
    /\ batch \in Batches
    /\ bpass = 1
    /\ futs = <<>>
    /\ attached = [spec \in TestSpecs |-> <<>>]
    /\ closed_handlers = {}
    /\ next_handler = 0

\* build_env_images: get_env_configs_to_build returns a dict keyed by
\* env_image_key with the environment images that are to be built, and one
\* future is submitted for each of its items; with an empty dict the
\* instance images are submitted at once
BatchEnvSubmit ==
    /\ qpc = "start"
    /\ \E present \in SUBSET EnvImages :
          LET names == [k \in 1..Len(batch) |-> EnvImage(env_image_key(batch[k]))]
              absent == SelectSeq(names, LAMBDA name : name \notin present)
              configs_to_build == dict_keys(absent)
          IN  IF configs_to_build = <<>>
              THEN /\ futs' = InstanceFutures({})
                   /\ qpc' = "instance_pool"
              ELSE /\ futs' = [k \in 1..Len(configs_to_build) |->
                                  Future(configs_to_build[k], 0)]
                   /\ qpc' = "env_pool"
    /\ UNCHANGED <<batch, bpass, attached, closed_handlers, next_handler>>
    /\ UNCHANGED nonBatchVars

\* a worker takes a future of the environment pool: build_image is called
BatchEnvStart(k) ==
    /\ qpc = "env_pool"
    /\ k \in 1..Len(futs)
    /\ futs[k].state = "queued"
    /\ Cardinality(BatchRunning) < max_workers
    /\ futs' = [futs EXCEPT ![k].state = "running"]
    /\ UNCHANGED <<qpc, batch, bpass, attached, closed_handlers, next_handler>>
    /\ UNCHANGED nonBatchVars

\* build_image of an environment image returns or raises
BatchEnvEnd(k) ==
    /\ qpc = "env_pool"
    /\ k \in 1..Len(futs)
    /\ futs[k].state = "running"
    /\ \E end \in {"ok", "failed"} : futs' = [futs EXCEPT ![k].state = end]
    /\ UNCHANGED <<qpc, batch, bpass, attached, closed_handlers, next_handler>>
    /\ UNCHANGED nonBatchVars

\* the environment pool is done: build_instance_images drops the specs
\* whose environment image failed and submits build_instance_image once
\* for each spec that is left
BatchEnvJoin ==
    /\ qpc = "env_pool"
    /\ BatchUnfinished = {}
    /\ LET failed == {futs[k].name : k \in {j \in 1..Len(futs) :
                                                futs[j].state = "failed"}}
       IN  futs' = InstanceFutures(failed)
    /\ qpc' = "instance_pool"
    /\ UNCHANGED <<batch, bpass, attached, closed_handlers, next_handler>>
    /\ UNCHANGED nonBatchVars

\* a worker takes a future of the instance pool: build_instance_image,
\* called without a logger, calls setup_logger, which adds a new file
\* handler to the logger named after the instance id
BatchInstanceStart(k) ==
    /\ qpc = "instance_pool"
    /\ k \in 1..Len(futs)
    /\ futs[k].state = "queued"
    /\ Cardinality(BatchRunning) < max_workers
    /\ next_handler' = next_handler + 1
    /\ attached' = [attached EXCEPT ![futs[k].spec] = Append(@, next_handler + 1)]
    /\ futs' = [futs EXCEPT ![k].state = "running",
                            ![k].handler = next_handler + 1]
    /\ UNCHANGED <<qpc, batch, bpass, closed_handlers>>
    /\ UNCHANGED nonBatchVars

\* build_instance_image ends: it raises BuildImageError because the
\* environment image is not found or because build_image raised, or it
\* built the image or found it present and calls close_logger
BatchInstanceEnd(k) ==
    /\ qpc = "instance_pool"
    /\ k \in 1..Len(futs)
    /\ futs[k].state = "running"
    /\ \/ /\ futs' = [futs EXCEPT ![k].state = "failed"]
          /\ UNCHANGED <<attached, closed_handlers>>
       \/ LET hs == attached[futs[k].spec]
              left == handlers_after_close(hs)
          IN  /\ futs' = [futs EXCEPT ![k].state = "ok"]
              /\ attached' = [attached EXCEPT ![futs[k].spec] = left]
              /\ closed_handlers' =
                    closed_handlers \cup
                    ({hs[j] : j \in 1..Len(hs)} \ {left[j] : j \in 1..Len(left)})
    /\ UNCHANGED <<qpc, batch, bpass, next_handler>>
    /\ UNCHANGED nonBatchVars

\* the instance pool is done: build_instance_images returns
BatchInstanceJoin ==
    /\ qpc = "instance_pool"
    /\ BatchUnfinished = {}
    /\ qpc' = "returned"
    /\ UNCHANGED <<batch, bpass, futs, attached, closed_handlers, next_handler>>
    /\ UNCHANGED nonBatchVars

\* build_instance_images is called again over the same batch in the same
\* process: the loggers are those of the earlier call
BatchRerun ==
    /\ qpc = "returned"
    /\ bpass < MaxPasses
    /\ bpass' = bpass + 1
    /\ futs' = <<>>
    /\ qpc' = "start"
    /\ UNCHANGED <<batch, attached, closed_handlers, next_handler>>
    /\ UNCHANGED nonBatchVars

NextBatch ==
    \/ BatchEnvSubmit
    \/ BatchEnvJoin
    \/ BatchInstanceJoin
    \/ BatchRerun
    \/ \E k \in 1..MaxBatch :
          \/ BatchEnvStart(k)
          \/ BatchEnvEnd(k)
          \/ BatchInstanceStart(k)
          \/ BatchInstanceEnd(k)

SpecBatch == InitBatch /\ [][NextBatch]_vars


(***************************************************************************)
(* Properties of grading (under SpecGrade)                                 *)
(***************************************************************************)
F2P == gold_results.FAIL_TO_PASS
P2P == gold_results.PASS_TO_PASS
Ids(list) == {list[i] : i \in 1..Len(list)}
\* how many entries of a reference list have a status in a given set
Count(list, map, statuses) ==
    Cardinality({i \in 1..Len(list) : map[list[i]] \in statuses})
PassStatuses == {PASSED, XFAIL}
FailStatuses == {FAILED, ERROR, ABSENT}

\* C1: the verdict of a graded report is FULL exactly when both rates are 1,
\* PARTIAL exactly when 0 < fail_to_pass_rate < 1 and pass_to_pass_rate = 1,
\* and NO in every other case.
C1_VerdictFromRates ==
    pc = "graded" =>
        LET f2p == compute_fail_to_pass(tests_report)
            p2p == compute_pass_to_pass(tests_report)
            full == f2p.num = f2p.den /\ p2p.num = p2p.den
            partial == /\ 0 < f2p.num
                       /\ f2p.num < f2p.den
                       /\ p2p.num = p2p.den
        IN  /\ status \in ResolvedStatus
            /\ (status = FULL) <=> full
            /\ (status = PARTIAL) <=> partial
            /\ (status = NO) <=> (~full /\ ~partial)

C1_Witness ==
    /\ pc = "graded"
    /\ status = PARTIAL
    /\ Len(tests_report.FAIL_TO_PASS.failure) > 0

\* C2: a failed PASS_TO_PASS id (FAILED, ERROR or not in the map) makes the
\* verdict NO, whatever the FAIL_TO_PASS outcomes are.
C2_RegressionIsNo ==
    (pc = "graded" /\ Count(P2P, eval_sm, FailStatuses) > 0) => status = NO

C2_Witness ==
    /\ pc = "graded"
    /\ Count(P2P, eval_sm, FailStatuses) > 0
    /\ Count(F2P, eval_sm, PassStatuses) = Len(F2P)
    /\ Len(F2P) > 0

RateIs(r, n, d) == r.num * d = n * r.den

FourStatuses == {PASSED, FAILED, SKIPPED, ERROR}
OnlyFourStatuses == \A t \in Tests : eval_sm[t] \in FourStatuses \cup {ABSENT}

\* C4 as stated: over a status map with values in PASSED, FAILED, SKIPPED and
\* ERROR, each rate is (ids of the list that passed) / (ids in the list), and
\* 1 for an empty list.
C4_RateOverAllIds ==
    (pc = "graded" /\ OnlyFourStatuses) =>
        /\ IF Len(F2P) = 0
           THEN RateIs(compute_fail_to_pass(tests_report), 1, 1)
           ELSE RateIs(compute_fail_to_pass(tests_report),
                       Count(F2P, eval_sm, {PASSED}), Len(F2P))
        /\ IF Len(P2P) = 0
           THEN RateIs(compute_pass_to_pass(tests_report), 1, 1)
           ELSE RateIs(compute_pass_to_pass(tests_report),
                       Count(P2P, eval_sm, {PASSED}), Len(P2P))

\* C4 (amended): over such a status map, each rate is (ids that passed) /
\* (ids that passed + ids that failed, errored or are missing): an id with
\* status SKIPPED is counted in neither; the rate is 1 when no id of the list
\* passed or failed, so also when the list is empty.
RateOverDecided(r, list) ==
    LET passed == Count(list, eval_sm, {PASSED})
        failed == Count(list, eval_sm, FailStatuses)
    IN  IF passed + failed = 0 THEN RateIs(r, 1, 1)
        ELSE RateIs(r, passed, passed + failed)

C4_RateOverDecidedIds ==
    (pc = "graded" /\ OnlyFourStatuses) =>
        /\ RateOverDecided(compute_fail_to_pass(tests_report), F2P)
        /\ RateOverDecided(compute_pass_to_pass(tests_report), P2P)
        /\ Len(F2P) = 0 => RateIs(compute_fail_to_pass(tests_report), 1, 1)
        /\ Len(P2P) = 0 => RateIs(compute_pass_to_pass(tests_report), 1, 1)

C4_Witness ==
    /\ pc = "graded"
    /\ OnlyFourStatuses
    /\ Count(F2P, eval_sm, {SKIPPED}) > 0
    /\ Count(F2P, eval_sm, {PASSED}) > 0
    /\ Count(P2P, eval_sm, {FAILED}) > 0

OneF2PFailedOthersPassed ==
    /\ Len(F2P) > 0
    /\ Count(F2P, eval_sm, FailStatuses) = 1
    /\ Count(F2P, eval_sm, PassStatuses) = Len(F2P) - 1
    /\ Count(P2P, eval_sm, PassStatuses) = Len(P2P)

\* C5 as stated: FAIL_TO_PASS is not empty, exactly one of its ids is missing
\* or failed, every other one passed and every PASS_TO_PASS id passed: the
\* verdict is PARTIAL.
C5_OneFailedIsPartial ==
    (pc = "graded" /\ OneF2PFailedOthersPassed) => status = PARTIAL

\* C5 (amended): the same, when FAIL_TO_PASS has at least one other id (which
\* passed); when the failed id is the only FAIL_TO_PASS id the rate is 0 and
\* the verdict is NO.
C5_OneFailedOfSeveralIsPartial ==
    (pc = "graded" /\ OneF2PFailedOthersPassed) =>
        /\ Len(F2P) >= 2 => status = PARTIAL
        /\ Len(F2P) = 1 => status = NO

C5_Witness ==
    /\ pc = "graded"
    /\ OneF2PFailedOthersPassed
    /\ Len(F2P) >= 2
    /\ Len(P2P) > 0

\* C6: when every FAIL_TO_PASS id and every PASS_TO_PASS id has status PASSED
\* the verdict is FULL; when both lists are empty both rates are 1 and the
\* verdict is FULL for every status map.
C6_AllPassedIsFull ==
    pc = "graded" =>
        /\ (/\ Count(F2P, eval_sm, {PASSED}) = Len(F2P)
            /\ Count(P2P, eval_sm, {PASSED}) = Len(P2P)) => status = FULL
        /\ (Len(F2P) = 0 /\ Len(P2P) = 0) =>
              /\ RateIs(compute_fail_to_pass(tests_report), 1, 1)
              /\ RateIs(compute_pass_to_pass(tests_report), 1, 1)
              /\ status = FULL

C6_Witness ==
    /\ pc = "graded"
    /\ Len(F2P) > 0
    /\ Len(P2P) > 0
    /\ Count(F2P, eval_sm, {PASSED}) = Len(F2P)
    /\ Count(P2P, eval_sm, {PASSED}) = Len(P2P)
    /\ status = FULL

(***************************************************************************)
(* Properties of get_eval_report (under SpecReport)                        *)
(***************************************************************************)
HasLine(content, texts) == \E i \in 1..Len(content) : content[i].text \in texts

\* the log holds a line that reports an applied patch, and no line that
\* reports a failed apply, a failed reset, errored tests or timed-out tests
LogIsGradable(content) ==
    /\ HasLine(content, {APPLY_PATCH_PASS_PRED, GIT_APPLIED})
    /\ ~HasLine(content, {APPLY_PATCH_FAIL, RESET_FAILED, TESTS_ERROR,
                          TESTS_TIMEOUT})

\* C7: get_eval_report grades (patch_successfully_applied = true) only if the
\* log holds the apply-success marker and none of the failure markers; in
\* every other case patch_successfully_applied and resolved are false and the
\* log parser is not called.
C7_GradesOnlyGradableLog ==
    pc = "returned" =>
        /\ report[1].patch_successfully_applied =>
              (model_patch # None /\ LogIsGradable(test_output[1]))
        /\ ~report[1].patch_successfully_applied =>
              (~report[1].resolved /\ ~parser_called)
        /\ parser_called => report[1].patch_successfully_applied

C7_Witness ==
    /\ pc = "returned"
    /\ model_patch # None
    /\ HasLine(test_output[1], {GIT_APPLIED})
    /\ HasLine(test_output[1], {TESTS_TIMEOUT})
    /\ ~report[1].patch_successfully_applied
    /\ ~parser_called

(***************************************************************************)
(* Properties of run_instance (under Spec and FairSpec)                    *)
(***************************************************************************)
Called(name) == \E i \in 1..Len(calls) : calls[i] = name
CalledInOrder(first, second) ==
    \E i, j \in 1..Len(calls) : i < j /\ calls[i] = first /\ calls[j] = second

ApplyFailed == val # <<>> /\ val[1] # 0

C9_TimeoutTerminatesCommand ==
    (exc = "TimeoutError" /\ Called("exec_start")) =>
        /\ CalledInOrder("exec_inspect", "exec_kill")
        /\ test_output = <<>>
        /\ pc = "done" => outcome = "raised"

\* C10: when the eval command never returns, exec_run_with_timeout
\* eventually reports the timeout, and run_instance then stops and removes the
\* container and ends; for every timeout that run_instance can pass, its
\* default included.
C10_HangingCommandEnds ==
    (pc = "join" /\ cmd_hangs /\ thread = "exec_start")
        ~> (/\ pc = "done"
            /\ exc = "TimeoutError"
            /\ CalledInOrder("stop", "remove")
            /\ outcome = "raised")

\* the same for the finite timeouts only
HangingCommandEndsWithinTimeout ==
    (pc = "join" /\ cmd_hangs /\ thread = "exec_start" /\ timeout # NoTimeout)
        ~> (/\ pc = "done"
            /\ exc = "TimeoutError"
            /\ CalledInOrder("stop", "remove")
            /\ outcome = "raised")

(***************************************************************************)
(* Properties of the teardown (under Spec and SpecCleanup)                 *)
(***************************************************************************)
LastCall == IF calls = <<>> THEN None ELSE calls[Len(calls)]
TeardownCalls == {"stop", "inspect_container", "kill", "remove", "remove_image"}
TeardownErrors == {"APIError", "OSError"}

\* C11: A run whose command timed out is never graded: after the timeout
\* run_instance has no test output, has called no grading and no parser and
\* has written no report.json; and a captured output that holds the
\* tests-timed-out marker is never parsed into a status map, so it never
\* yields a report of an applied or resolved patch.
C11_TimedOutRunIsNotGraded ==
    /\ exc = "TimeoutError" =>
          /\ test_output = <<>>
          /\ report = <<>>
          /\ report_file = <<>>
          /\ ~parser_called
    /\ (test_output # <<>> /\ HasLine(test_output[1], {TESTS_TIMEOUT})) =>
          /\ ~parser_called
          /\ report # <<>> =>
                /\ ~report[1].patch_successfully_applied
                /\ ~report[1].resolved

\* the command was started, timed out, and run_instance has ended
C11_Witness ==
    /\ pc = "done"
    /\ exc = "TimeoutError"
    /\ Called("exec_start")
    /\ outcome = "raised"

\* C12: Once run_instance has returned or raised with a container created,
\* cleanup_container was invoked for it (its stop was called after the
\* create), whether the run returned a report or raised after a failed
\* patch application, a timeout or any other exception; one run creates at
\* most one container, and every call on a container follows its create.
C12_ContainerAlwaysCleanedUp ==
    /\ (outcome # None /\ container # None) => CalledInOrder("create", "stop")
    /\ Cardinality({i \in 1..Len(calls) : calls[i] = "create"}) <= 1
    /\ \A i \in 1..Len(calls) :
          calls[i] \notin {"create", "remove_image"} =>
             (container # None /\ \E j \in 1..(i - 1) : calls[j] = "create")

\* a failed patch application left through the exception handler, and the
\* container was stopped
C12_Witness ==
    /\ outcome = "raised"
    /\ ApplyFailed
    /\ container # None
    /\ CalledInOrder("create", "stop")

\* the order of the calls of cleanup_container
CleanupOrder ==
    /\ calls # <<>> => calls[1] = "stop"
    /\ Called("inspect_container") => calls[2] = "inspect_container"
    /\ (LastCall = "inspect_container") => container_state # "exited"
    /\ Called("kill") => (pid > 0 /\ CalledInOrder("inspect_container", "kill"))
    /\ (pid = 0 /\ pc # "inspect") => ~Called("kill")

\* C13 as claimed: for every container and every logger argument the stop
\* comes first, inspect and kill only follow a failed stop (the kill only
\* for a pid > 0), and the removal is attempted whatever their outcomes.
C13_RemovalAlwaysAttempted ==
    container # None =>
        /\ CleanupOrder
        /\ pc = "done" => Called("remove")

\* C13 as amended: the order holds for every logger argument; the removal
\* is always attempted with a logger object, and with None or "quiet" it is
\* attempted unless the inspect or the kill raised, which ends the cleanup.
C13_RemovalAttemptedUnlessRaised ==
    container # None =>
        /\ CleanupOrder
        /\ (pc = "done" /\ logger = "logger") => Called("remove")
        /\ (pc = "done" /\ ~Called("remove")) =>
              /\ raise_error(logger)
              /\ outcome = "raised"
              /\ exc \in TeardownErrors
              /\ LastCall \in {"inspect_container", "kill"}

\* quiet cleanup: the stop failed, the process was killed, the container
\* removed
C13_Witness ==
    /\ pc = "done"
    /\ logger = "quiet"
    /\ pid > 0
    /\ CalledInOrder("stop", "inspect_container")
    /\ CalledInOrder("kill", "remove")

\* C14 as claimed: whatever fails in the teardown and whatever the logger
\* argument, no teardown error reaches the caller, and a written report is
\* returned unchanged.
C14_TeardownNeverRaises ==
    /\ exc \notin TeardownErrors
    /\ (pc = "done" /\ report_file # <<>>) =>
          (outcome = "returned" /\ report = report_file)

\* C14 as amended: with a logger object no teardown error reaches the
\* caller and a written report is returned unchanged; with None or "quiet"
\* a failed stop is still swallowed, but a failing inspect, kill, container
\* removal or image removal is raised to the caller.
C14_TeardownWithLoggerNeverRaises ==
    /\ logger = "logger" =>
          /\ exc \notin TeardownErrors
          /\ (pc = "done" /\ report_file # <<>>) =>
                (outcome = "returned" /\ report = report_file)
    /\ exc \in TeardownErrors =>
          /\ raise_error(logger)
          /\ outcome = "raised"
          /\ LastCall \in TeardownCalls \ {"stop"}

\* with a logger object the stop, the kill and both removals failed, and the
\* written report was still returned
C14_Witness ==
    /\ pc = "done"
    /\ logger = "logger"
    /\ report_file # <<>>
    /\ Called("kill")
    /\ Called("remove_image")
    /\ container_state \in {"created", "running"}
    /\ outcome = "returned"

(***************************************************************************)
(* Properties of the build pipeline (under SpecBuild)                      *)
(***************************************************************************)
NeedsBuild(name) ==
    \/ force_rebuild
    \/ images[name] = Absent
    \/ (name.tier # "base" /\ Stale(images, name))
BuildStarts(name) == name \notin started /\ name \in started'
Removes(name) == images[name] # Absent /\ images'[name] = Absent
Skips(name) == name \notin skipped /\ name \in skipped'
DependentsOf(env) == {name \in InstanceImages : Dependency(name) = env}

\* C15 as claimed: in every tier a build of an image is started if and only
\* if the image is absent, older than the image it depends on, or
\* force-rebuilt; an image that exists, is not stale and is not
\* force-rebuilt is neither removed nor rebuilt.
C15_BuildIffAbsentStaleOrForced ==
    /\ [][\A name \in ImageNames :
            /\ BuildStarts(name) => NeedsBuild(name)
            /\ Skips(name) => ~NeedsBuild(name)
            /\ Removes(name) => (force_rebuild \/ Stale(images, name))]_vars
    /\ [](bpc = "returned" =>
            \A name \in ImageNames :
               \/ name \in started
               \/ (~force_rebuild /\ ~NeedsBuild(name)))

\* the instance image of a spec whose environment image failed in the pass
Excluded(name) ==
    name.tier = "instance" /\ Dependency(name) \in env_failed

\* C15 as amended: a build is started only for an image that is absent,
\* stale or force-rebuilt; an image found present, fresh and not
\* force-rebuilt is skipped, neither removed nor rebuilt; an image is
\* removed only if it is force-rebuilt, or stale, or built upon a stale
\* environment image; and when the pass returns, every image that is
\* absent, stale or force-rebuilt had its build started, except the
\* instance images of the specs whose environment image failed.
C15_BuildOnlyAbsentStaleOrForced ==
    /\ [][\A name \in ImageNames :
            /\ BuildStarts(name) => NeedsBuild(name)
            /\ Skips(name) =>
                  (~NeedsBuild(name) /\ images'[name] = images[name])
            /\ Removes(name) =>
                  \/ force_rebuild
                  \/ Stale(images, name)
                  \/ (name.tier = "instance" /\
                      Stale(images, Dependency(name)))]_vars
    /\ [](skipped \cap (started \cup removed) = {})
    /\ [](bpc = "returned" =>
            \A name \in ImageNames :
               \/ name \in started
               \/ (~force_rebuild /\ ~NeedsBuild(name))
               \/ Excluded(name))

\* a pass without force_rebuild returned after it skipped an image, removed
\* a stale one and started a build
C15_Witness ==
    /\ bpc = "returned"
    /\ ~force_rebuild
    /\ skipped # {}
    /\ removed \cap started # {}
    /\ \E name \in skipped : images[name] # Absent

StaleRebuilt == {env \in EnvImages \cap removed \cap started : ~force_rebuild}

\* C17 as claimed: the pass rebuilds every environment image older than its
\* base image and then every instance image that depends on it, and no
\* image older than the image it depends on is skipped as a cache hit.
C17_StaleDependentsRebuilt ==
    /\ \A name \in skipped : name.tier # "base" => ~Stale(images, name)
    /\ bpc = "returned" =>
          \A env \in StaleRebuilt : DependentsOf(env) \subseteq started

\* C17 as amended: the pass starts the rebuild of every environment image
\* older than its base image, and then of every instance image that depends
\* on one whose rebuild succeeded; the instance images of an environment
\* image whose rebuild failed are not rebuilt in that pass; no image older
\* than the image it depends on is skipped as a cache hit.
C17_StaleDependentsRebuiltAfterEnv ==
    /\ \A name \in skipped : name.tier # "base" => ~Stale(images, name)
    /\ \A env \in EnvImages :
          (bpc \in {"env_pool", "instance_pool", "returned"}
             /\ env \notin skipped) => env \in started \cup Unfinished({env})
    /\ bpc = "returned" =>
          \A env \in StaleRebuilt :
             /\ tasks[env] = "ok" => DependentsOf(env) \subseteq started
             /\ tasks[env] = "failed" => DependentsOf(env) \cap started = {}

\* a stale environment image and its instance images were rebuilt
C17_Witness ==
    /\ bpc = "returned"
    /\ \E env \in StaleRebuilt :
          /\ tasks[env] = "ok"
          /\ \A name \in DependentsOf(env) :
                name \in started /\ images[name] > images[env]

\* C18: a failed build of an image of any tier does not abort
\* build_instance_images: the call returns (successful, failed), and every
\* image whose dependency exists was examined: built or found up to date.
C18_FailureNeverAborts ==
    /\ bpc # "raised"
    /\ bpc = "returned" =>
          /\ result # <<>>
          /\ \A name \in EnvImages \cup InstanceImages :
                images[Dependency(name)] # Absent =>
                   name \in started \cup skipped

\* C19: a spec whose environment image failed in the pass is not submitted
\* for an instance build, and the returned result names it in a list of its
\* own, apart from successful and failed.
C19_ExcludedSpecIsReported ==
    bpc = "returned" =>
        \A name \in InstanceImages :
           Dependency(name) \in env_failed =>
              /\ tasks[name] = "none"
              /\ name \notin started
              /\ \E list \in DOMAIN result[1] \ {"successful", "failed"} :
                    name \in result[1][list]

\* C20: whatever the workers' interleaving, while an environment build is
\* queued or running the base loop is over and no base build is running,
\* and once an instance build was taken by a worker no environment build is
\* queued or running.
C20_TiersInOrder ==
    /\ Unfinished(EnvImages) # {} =>
          (base_left = <<>> /\ Unfinished(BaseImages) = {})
    /\ (\E name \in InstanceImages :
           tasks[name] \in {"running", "ok", "failed"}) =>
          (Unfinished(EnvImages) = {} /\ Unfinished(BaseImages) = {})

\* a base and an environment image were built in the pass, and two
\* instance builds run at once
C20_Witness ==
    /\ \E name \in BaseImages : tasks[name] = "ok"
    /\ \E name \in EnvImages : tasks[name] = "ok"
    /\ Cardinality(Running \cap InstanceImages) > 1

(***************************************************************************)
(* Properties of run_instances and of the image retention policy           *)
(***************************************************************************)
\* run_instances has returned to main
RunInstancesReturned == rpc \in {"clean_images", "done"}

\* C21: an exception of one run_instance is caught where its future is
\* collected: run_instances never ends by an exception, and when it has
\* returned every submitted instance has ended, by a return or by its own
\* error, and was visited by the collecting loop, whatever the others did
C21_FailuresAreCollected ==
    /\ rpc # "raised"
    /\ RunInstancesReturned =>
          \A i \in Instances : futures[i] \in Finished /\ i \in collected

\* run_instances returned after one instance raised and another was run to
\* its report
C21_Witness ==
    /\ RunInstancesReturned
    /\ \E i, j \in Instances :
          /\ futures[i] \in {"EvaluationError", "Exception"}
          /\ futures[j] = "returned"
          /\ j \in executed
          /\ report_paths[j] = "report"

\* instance images the engine held before the run, and those it did not
PriorInstanceImages == {InstanceImage(i) : i \in Instances} \cap prior_images
CreatedInstanceImages ==
    ({InstanceImage(i) : i \in Instances} \cap (docker_images \cup cleaned))
        \ prior_images

\* an instance image that was there before the run is removed only with
\* clean set
PriorInstanceImagesKept == (PriorInstanceImages \cap cleaned # {}) => clean

\* with cache level "env" and clean unset the base and environment images
\* that were there before the run are still there
PriorLowerTiersKept ==
    (cache = "env" /\ ~clean) =>
        \A name \in prior_images :
            name.tier \in {"base", "env"} => name \in docker_images

Range(seq) == {seq[k] : k \in 1..Len(seq)}

\* the id lists of the written report that hold instance i, among resolved,
\* unresolved, error, incomplete and empty-patch
OutcomeListsOf(i) ==
    {name \in {"resolved_ids", "unresolved_ids", "error_ids",
               "incomplete_ids", "empty_patch_ids"} :
        i \in Range(run_report[1][name])}

\* C22: in the run report written by make_run_report of
\* run_evaluation_modal.py every instance of the dataset is in exactly one
\* of the id lists resolved, unresolved, error, incomplete and empty-patch,
\* whatever predictions are missing, patches are empty and reports are
\* missing or unreadable
C22_ExactlyOneOutcome ==
    (called = "modal" /\ run_report # <<>>) =>
        \A i \in dataset : Cardinality(OutcomeListsOf(i)) = 1

\* a report over the whole dataset was written with an instance whose
\* report.json does not load and another that has no patch to run
C22_Witness ==
    /\ called = "modal"
    /\ run_report # <<>>
    /\ dataset = Instances
    /\ \E i, j \in Instances :
          /\ predictions[i] = <<"diff">>
          /\ report_json[i] = "unreadable"
          /\ OutcomeListsOf(i) = {"error_ids"}
          /\ predictions[j] \in {<<>>, <<"">>, <<None>>}
          /\ report_json[j] # "none"
          /\ OutcomeListsOf(j) \subseteq {"incomplete_ids", "empty_patch_ids"}


\* C27: called as (predictions, dataset, client, run_id) with at least one
\* prediction, make_run_report writes exactly one run-report file, named
\* after the model and the run id, returns the path of that file, and the
\* report it wrote carries schema_version 2
C27_ReportFileReturned ==
    (/\ called = "docker"
     /\ mrpc # "call"
     /\ \E i \in Instances : predictions[i] # <<>>) =>
        /\ written_files = {report_file_name}
        /\ returned_path = <<report_file_name>>
        /\ run_report # <<>>
        /\ "schema_version" \in DOMAIN run_report[1]
        /\ run_report[1]["schema_version"] = 2

(***************************************************************************)
(* Properties of the modal backend (under SpecModal)                       *)
(***************************************************************************)
\* the prediction of instance i has an empty or null patch
EmptyPatch(i) == predictions[i] \in {<<"">>, <<None>>}

\* C23: an instance whose patch is empty or null is never given a sandbox
\* and no command is run for it, and a run report that is written lists it
\* as empty-patch
C23_EmptyPatchNotRun ==
    \A i \in Instances :
        EmptyPatch(i) =>
            /\ sandbox[i] \in {"none", "queued"}
            /\ commands[i] = <<>>
            /\ run_report # <<>> =>
                  i \in Range(run_report[1]["empty_patch_ids"])

\* C24: on a re-run an instance that is not selected gets no sandbox and no
\* command, and when the selection has just been made an instance is left
\* out exactly if its report.json exists, so that every instance whose
\* earlier run ended in an error is selected again
C24_SkippedIffReported ==
    /\ \A i \in Instances :
          i \notin run_test_specs => sandbox[i] = "none" /\ commands[i] = <<>>
    /\ (run > 1 /\ mpc = "results" /\ saved = {}) =>
          \A i \in get_dataset_from_preds(predictions, {}, TRUE) :
              /\ i \notin run_test_specs <=> report_json[i] # "none"
              /\ i \in errored_earlier => i \in run_test_specs

(***************************************************************************)
(* The patch-apply step of both backends (under SpecBackends)              *)
(***************************************************************************)
\* how often one of the named commands occurs among the commands run
Runs(cmds, names) == Cardinality({k \in 1..Len(cmds) : cmds[k] \in names})

\* run_instance: git apply is run at most once, and after its non-zero
\* exit no test command is run and EvaluationError is raised
DockerAppliesOnce ==
    /\ Runs(calls, {"git_apply"}) <= 1
    /\ ApplyFailed =>
          /\ ~Called("exec_create")
          /\ exc = "EvaluationError"

C26_UnknownPairIsConfigurationError ==
    \A i \in Instances :
        install_key[i] \in {"no_version", "no_repo"} =>
            /\ cpc = "testbed" => i \in task_instances_grouped
            /\ cpc # "KeyError"
            /\ built[i] \in {"none", "image", "ConfigurationError"}

(***************************************************************************)
(* Properties of build_image (under SpecImage)                             *)
(***************************************************************************)
ErrorDetailRead == \E k \in 1..Len(consumed) : consumed[k] = "errorDetail"

\* C30: build_image returns only after the whole stream was read without an
\* error-detail chunk; the first error-detail chunk it reads, and any other
\* failure of writing the build context, of starting the build or of
\* reading the stream, makes it raise BuildImageError with the image name
\* and the path of the build log; and whenever it has returned or raised,
\* the handler of its log is closed
C30_BuildImageOutcome ==
    /\ ipc = "returned" =>
          /\ chunks = <<>>
          /\ ~ErrorDetailRead
          /\ failed_step = None
          /\ build_error = <<>>
    /\ ErrorDetailRead =>
          /\ consumed[Len(consumed)] = "errorDetail"
          /\ \A k \in 1..(Len(consumed) - 1) : consumed[k] # "errorDetail"
          /\ ipc = "raised"
    /\ failed_step # None => ipc = "raised"
    /\ ipc = "raised" =>
          /\ failed_step # None
          /\ build_error = <<[image_name |-> image_name,
                              log_path |-> log_file]>>
    /\ ipc \in {"returned", "raised"} => handlers = 0

\* build_image raised on an error-detail chunk that came after a stream
\* chunk and before the end of the stream
C30_Witness ==
    /\ ipc = "raised"
    /\ failed_step = "errorDetail"
    /\ Len(consumed) > 1
    /\ consumed[1] = "stream"
    /\ chunks # <<>>
    /\ handlers = 0

(***************************************************************************)
(* The order of the steps of run_instance (under Spec and FairSpec)        *)
(***************************************************************************)
\* the positions inside the try block of run_instance and its handlers
TrySteps ==
    {"build_container", "container_start", "write_patch", "apply_patch",
     "diff_before", "exec_run", "join", "check_exception", "check_alive",
     "write_output", "diff_after", "grade", "write_report", "except"}

\* the positions of the finally block and after it
CleanupSteps ==
    {"finally", "inspect", "kill", "remove", "cleanup_image", "close_logger",
     "done"}

\* the container is started after it was created, the patch applied after
\* the start, the test command run only after git apply exited with 0,
\* grading called only with the written test output, the report written
\* only after grading, and the teardown begun only after the try block
StepsInOrder ==
    /\ Called("start") => CalledInOrder("create", "start")
    /\ Called("git_apply") => CalledInOrder("start", "git_apply")
    /\ Called("exec_create") =>
          /\ val = <<0>>
          /\ CalledInOrder("git_apply", "exec_create")
    /\ pc \in {"grade", "write_report"} =>
          /\ test_output # <<>>
          /\ test_output = exec_result
    /\ pc = "write_report" => report # <<>>
    /\ (report_file # <<>> /\ Called("create")) =>
          /\ report # <<>>
          /\ report_file = report
    /\ Called("stop") => pc \in CleanupSteps

\* C29: the steps of one run_instance occur only in the order created,
\* started, patch applied, tests run, graded, cleaned, and from every
\* position inside the try block, an error in any step included, the
\* cleanup of the finally block is eventually reached
C29_StepsInOrderAndCleanupReached ==
    /\ []StepsInOrder
    /\ (pc \in TrySteps) ~> (pc = "finally")

\* the same with the cleanup required only when a finite timeout was given
StepsInOrderAndCleanupReachedWithinTimeout ==
    /\ []StepsInOrder
    /\ (pc \in TrySteps /\ timeout # NoTimeout) ~> (pc = "finally")


(***************************************************************************)
(* Properties of get_env_configs_to_build                                  *)
(***************************************************************************)
\* environment images are being selected
SelectingEnvImages == bpc = "base" /\ base_left = <<>>

\* builds of environment or instance images started or waiting in the pool
PoolBuilds ==
    {name \in EnvImages \cup InstanceImages :
        name \in started \/ tasks[name] \in {"queued", "running"}}

\* C31: if the base image of a spec of the batch does not exist when the
\* environment images are selected, get_env_configs_to_build raises, and
\* no build of an environment image is started or submitted in that pass
C31_MissingBaseIsFatal ==
    [][(SelectingEnvImages /\ MissingBase(images) # {})
         => (bpc' = "raised" /\ PoolBuilds' = {} /\ tasks' = tasks)]_vars

\* get_env_configs_to_build has raised for a missing base image
C31_Witness ==
    /\ bpc = "raised"
    /\ pass = 1
    /\ MissingBase(images) # {}
    /\ \A name \in BaseImages : tasks[name] = "none"
    /\ removed # {}


(***************************************************************************)
(* Failures of one instance in the modal backend                           *)
(***************************************************************************)
\* run_instances_modal has ended
ModalEnded == mpc \in {"done", "raised"}

\* C32: every failure of one instance in the modal backend ends
\* run_instance_modal with a result marked errored and none is raised, so
\* when run_instances_modal ends the result of every instance it ran was
\* saved and make_run_report was called
C32_InstanceFailureIsAResult ==
    /\ \A i \in Instances : sandbox[i] # "raised"
    /\ ModalEnded => (run_test_specs \subseteq saved /\ called = "modal")


(***************************************************************************)
(* Properties of the pools of build_instance_images and of the loggers     *)
(***************************************************************************)
\* the handlers in a list of handlers
Handlers(hs) == {hs[j] : j \in 1..Len(hs)}

\* C33: within one build pass each image name is submitted to the pool at
\* most once in its tier, whatever the batch, so no two workers build the
\* same image at the same time
C33_EachImageSubmittedOnce ==
    \A j, k \in 1..Len(futs) : futs[j].name = futs[k].name => j = k

\* C34: when build_instance_image, called without a logger, has returned
\* or raised, the handler its setup_logger opened is closed and detached
C34_OwnLoggerClosedOnEveryExit ==
    \A k \in 1..Len(futs) :
        (futs[k].spec # 0 /\ futs[k].state \in {"ok", "failed"}) =>
            /\ futs[k].handler \in closed_handlers
            /\ futs[k].handler \notin Handlers(attached[futs[k].spec])

\* C39: after close_logger(logger) returns the logger has no handler
\* attached and every handler it had was closed, however many it had
C39_CloseLoggerDetachesAll ==
    [][\A k \in 1..Len(futs) :
          (/\ qpc = "instance_pool"
           /\ futs[k].state = "running"
           /\ Len(futs') = Len(futs)
           /\ futs'[k].state = "ok")
          => /\ attached'[futs[k].spec] = <<>>
             /\ Handlers(attached[futs[k].spec]) \subseteq closed_handlers']_vars


(***************************************************************************)
(* The outcomes of exec_run_with_timeout (under Spec)                      *)
(***************************************************************************)
\* exec_run_with_timeout has returned to run_instance
ExecRunReturned == pc = "write_output"

\* C35: under every interleaving of the command thread and the caller,
\* exec_run_with_timeout returns the output only of a command that
\* completed without error: what it returns is never None, and no
\* exception of the command is lost by returning
C35_ReturnsOutputOrRaises ==
    ExecRunReturned => (exec_result # <<>> /\ exception = None)


(***************************************************************************)
(* The flags of the report of get_eval_report (under SpecReport)           *)
(***************************************************************************)
\* the tests_status of a graded report lists no failed test
NoTestFailed(tests) ==
    /\ tests.FAIL_TO_PASS.failure = <<>>
    /\ tests.PASS_TO_PASS.failure = <<>>

\* some but not all of the decided FAIL_TO_PASS tests passed, and no
\* PASS_TO_PASS test failed
SomeButNotAllFixed(tests) ==
    /\ tests.FAIL_TO_PASS.success # <<>>
    /\ tests.FAIL_TO_PASS.failure # <<>>
    /\ tests.PASS_TO_PASS.failure = <<>>

\* the grading preconditions of a log: it is gradable and does not report
\* that the task environment could not be reset
PassesGradingPreconditions(content) ==
    /\ LogIsGradable(content)
    /\ ~HasLine(content, {RESET_FAILED_TEXT})

\* C36: get_eval_report sets resolved exactly when the patch is not null,
\* the log passes the grading preconditions and the verdict is FULL (no
\* test of the report failed); a PARTIAL verdict is not resolved; and in
\* every report resolved implies patch_successfully_applied, which implies
\* patch_exists
C36_ResolvedIffFull ==
    pc = "returned" =>
        /\ report[1].resolved <=>
              /\ model_patch # None
              /\ PassesGradingPreconditions(test_output[1])
              /\ NoTestFailed(report[1].tests_status)
        /\ report[1].resolved => report[1].patch_successfully_applied
        /\ report[1].patch_successfully_applied => report[1].patch_exists
        /\ report[1].patch_exists <=> model_patch # None

\* a graded report with a PARTIAL verdict, which is not resolved
C36_Witness ==
    /\ pc = "returned"
    /\ report[1].patch_successfully_applied
    /\ SomeButNotAllFixed(report[1].tests_status)
    /\ ~report[1].resolved


(***************************************************************************)
(* report.json as a completion marker (under SpecBackends)                 *)
(***************************************************************************)
\* report.json of run_instance is the report an earlier run wrote, or it
\* was written by this run after grading, with the report
DockerReportFileIsGraded ==
    report_file # <<>> =>
        \/ report = <<>> /\ report_file = <<ExistingReport>>
        \/ report # <<>> /\ report_file = report

\* C37: in every backend report.json exists for an instance only if
\* grading completed for it and produced a report: the file is never left
\* empty or partial for an instance that errored
C37_ReportFileMeansGraded ==
    /\ DockerReportFileIsGraded
    /\ \A i \in Instances :
          report_json[i] # "none" =>
              /\ report_json[i] \in {"resolved", "unresolved"}
              /\ i \in saved => sandbox[i] = report_json[i]


(***************************************************************************)
(* The id lists of the run report (under SpecRunReport)                    *)
(***************************************************************************)
\* the id lists a run report is to hold
IdLists ==
    {"completed_ids", "resolved_ids", "unresolved_ids", "error_ids",
     "incomplete_ids", "empty_patch_ids"}

\* the relations between the id lists of a run report
IdListsConsistent(r) ==
    /\ IdLists \subseteq DOMAIN r
    /\ Range(r["completed_ids"]) =
          Range(r["resolved_ids"]) \cup Range(r["unresolved_ids"])
    /\ Range(r["resolved_ids"]) \cap Range(r["unresolved_ids"]) = {}
    /\ Range(r["completed_ids"]) \cap
          (Range(r["error_ids"]) \cup Range(r["incomplete_ids"])
             \cup Range(r["empty_patch_ids"])) = {}

\* C38: in every run report make_run_report writes, completed_ids is the
\* union of resolved_ids and unresolved_ids, which are disjoint, and
\* completed_ids is disjoint from error_ids, incomplete_ids and
\* empty_patch_ids
C38_RunReportIdSets ==
    run_report # <<>> => IdListsConsistent(run_report[1])

====
